---- MODULE Spec2Model ----
(***************************************************************************)
(* The GET /api/clip-video handler of api/server.js, one request at a      *)
(* time: parameter validation, source materialisation (local file,        *)
(* yt-dlp, direct HTTPS download, Supabase signed URL), the ffmpeg child  *)
(* process piped into the HTTP response, and the three copies of the      *)
(* temp-file cleanup loop (ffmpeg 'close', ffmpeg 'error', catch block).  *)
(*                                                                         *)
(* Runtime behaviour the source relies on and that is modelled here:      *)
(*  - readable.pipe(res) writes every stdout chunk to res (the first      *)
(*    write flushes the headers with the current status) and calls        *)
(*    res.end() when stdout ends;                                         *)
(*  - a child process emits 'close' only after its stdio streams have     *)
(*    closed, so stdout's end precedes 'close' for a process that         *)
(*    started; a process that failed to start emits 'error', may then     *)
(*    emit 'close' with a negative code, and its stdout never ends;       *)
(*  - every await and every fs callback is a separate step, so other      *)
(*    events interleave between a stat and the unlink it guards;          *)
(*  - the file of fs.createWriteStream is taken to exist from that call   *)
(*    on.                                                                  *)
(***************************************************************************)
EXTENDS Integers, Sequences, FiniteSets, TLC

\* ------------------------------------------------------------ bounds
\* How many stdout chunks ffmpeg may write into the response.
MaxChunks == 2

\* ------------------------------------------------------------ inputs
Absent == "undefined"

StartTimeTokens == {Absent, "abc", "-1", "0", "10", "10.0", "20"}
EndTimeTokens == {Absent, "abc", "10", "20", "Infinity"}
TraversalName == "../../etc/passwd"
AbsoluteName == "/etc/passwd"
InputFileNameTokens ==
    {Absent, "", "clip_source.mp4", "take.1.mp4", TraversalName, AbsoluteName}
YouTubeUrl == "https://youtube.com/watch?v=x"
DirectUrl == "https://example.com/v.mp4"
StorageKey == "videos/a.mp4"
MalformedIdentifier == "%"
IdentifierTokens == {Absent, YouTubeUrl, DirectUrl, StorageKey, MalformedIdentifier}
SourceTypeTokens == {Absent, "external_url", "supabase", "ftp"}

Requests ==
    [startTime : StartTimeTokens, endTime : EndTimeTokens,
     inputFileName : InputFileNameTokens, identifier : IdentifierTokens,
     sourceType : SourceTypeTokens]

NoRequest ==
    [startTime |-> Absent, endTime |-> Absent, inputFileName |-> Absent,
     identifier |-> Absent, sourceType |-> Absent]

\* The paths one request can touch: the mounted local source, the yt-dlp base
\* path input_<id>.tmp, the download target input_<id>.tmp.mp4, and any other
\* artifact yt-dlp leaves beside them (input_<id>.tmp.part, .webm, ...).
Paths == {"local", "tmp", "tmpmp4", "other"}
TempPaths == {"tmp", "tmpmp4", "other"}

Handlers == {"close", "error", "catch"}

\* ------------------------------------------------------------ numbers
\* JavaScript numbers as far as the handler distinguishes them.
NaN == [k |-> "nan", n |-> 0]
Infinity == [k |-> "inf", n |-> 0]
Num(i) == [k |-> "num", n |-> i]

\* parseFloat of a query-string value.
ParseFloat(s) ==
    CASE s = "-1" -> Num(-1)
      [] s = "0" -> Num(0)
      [] s = "10" -> Num(10)
      [] s = "10.0" -> Num(10)
      [] s = "20" -> Num(20)
      [] s = "Infinity" -> Infinity
      [] OTHER -> NaN

IsNaN(x) == x.k = "nan"
IsFinite(x) == x.k = "num"

\* x < y and x <= y on JavaScript numbers (false whenever a side is NaN).
Lt(x, y) ==
    /\ x.k # "nan"
    /\ y.k # "nan"
    /\ \/ x.k = "num" /\ y.k = "inf"
       \/ x.k = "num" /\ y.k = "num" /\ x.n < y.n

Le(x, y) == Lt(x, y) \/ (x.k # "nan" /\ x = y)

\* String(x) of a JavaScript number, as a template literal writes it.
NumberToString(x) ==
    CASE x.k = "nan" -> "NaN"
      [] x.k = "inf" -> "Infinity"
      [] OTHER -> ToString(x.n)

\* JavaScript truthiness of a query value: undefined and "" are falsy.
Truthy(s) == s # Absent /\ s # ""

\* decodeURIComponent throws URIError on a malformed escape sequence.
DecodeThrows(s) == s = MalformedIdentifier

IsYouTube(s) == s = YouTubeUrl

\* https.get throws synchronously when its argument is not an https URL.
IsHttpsUrl(s) == s \in {YouTubeUrl, DirectUrl}

\* ------------------------------------------------------------ paths
\* A path is the sequence of its '/'-separated segments, a segment the sequence
\* of its '.'-separated pieces: "clip_source.mp4" is <<"clip_source", "mp4">>,
\* ".." is <<"", "", "">> and the empty segment before a leading '/' is <<"">>.
DotDot == <<"", "", "">>
Dot == <<"", "">>
EmptySegment == <<"">>

\* Concurrent requests: how many are followed, and how many values
\* crypto.randomBytes(8).toString('hex') is drawn from.
NumRequests == 2
NumIds == 2
Reqs == 1 .. NumRequests
Ids == {"000000000000000" \o ToString(i) : i \in 1 .. NumIds}
NoId == ""

\* tempDir = path.join(__dirname, 'tmp'), with api/server.js under /usr/src/app.
TempDirPath == << <<"usr">>, <<"src">>, <<"app">>, <<"api">>, <<"tmp">> >>

\* path.join(tempDir, `input_${uniqueId}.tmp`) and that path with '.mp4' added.
TempInputDownloadPathOf(id) == Append(TempDirPath, <<"input_" \o id, "tmp">>)
VideoSourcePathOf(id) == Append(TempDirPath, <<"input_" \o id, "tmp", "mp4">>)

\* An inputFileName that names, from the base directory, the download of the
\* request whose uniqueId is id.
TempFileName(id) == "../../usr/src/app/api/tmp/input_" \o id \o ".tmp.mp4"

\* The segments of each file name a request may carry.
PathSegments(name) ==
    CASE name = "clip_source.mp4" -> << <<"clip_source", "mp4">> >>
      [] name = "take.1.mp4" -> << <<"take", "1", "mp4">> >>
      [] name = TraversalName -> <<DotDot, DotDot, <<"etc">>, <<"passwd">> >>
      [] name = AbsoluteName -> <<EmptySegment, <<"etc">>, <<"passwd">> >>
      [] \E id \in Ids : name = TempFileName(id) ->
             <<DotDot, DotDot, <<"usr">>, <<"src">>, <<"app">>, <<"api">>, <<"tmp">>,
               <<"input_" \o (CHOOSE id \in Ids : name = TempFileName(id)), "tmp", "mp4">> >>
      [] OTHER -> << >>

\* HOST_DOWNLOADS_PATH_IN_CONTAINER = '/data/host_downloads'
HostDownloadsPath == << <<"data">>, <<"host_downloads">> >>

\* path.normalize of an absolute path: empty and '.' segments go, '..' removes
\* the segment before it (and is dropped at the root).
RECURSIVE NormalizeOnto(_, _)
NormalizeOnto(done, rest) ==
    IF rest = << >> THEN done
    ELSE LET seg == Head(rest) IN
         IF seg = EmptySegment \/ seg = Dot
         THEN NormalizeOnto(done, Tail(rest))
         ELSE IF seg = DotDot
         THEN NormalizeOnto(IF done = << >> THEN done ELSE SubSeq(done, 1, Len(done) - 1),
                            Tail(rest))
         ELSE NormalizeOnto(Append(done, seg), Tail(rest))

\* path.join(base, name): the segments of both, normalized.
PathJoin(base, name) == NormalizeOnto(<< >>, base \o PathSegments(name))

\* path.extname: the piece after the last '.', none for a name without a dot,
\* for a dot-file and for '..'.
HasExtname(seg) == Len(seg) >= 2 /\ ~(Len(seg) = 2 /\ seg[1] = "") /\ seg # DotDot

\* path.basename(name): the last segment, extension kept.
Basename(name) ==
    LET segs == PathSegments(name)
    IN IF segs = << >> THEN EmptySegment ELSE segs[Len(segs)]

\* path.basename(name, path.extname(name)): the last segment without its extension.
BasenameWithoutExt(name) ==
    LET segs == PathSegments(name)
        seg == IF segs = << >> THEN EmptySegment ELSE segs[Len(segs)]
    IN IF HasExtname(seg) THEN SubSeq(seg, 1, Len(seg) - 1) ELSE seg

\* crypto.randomBytes(8).toString('hex') of the one request followed here.
UniqueId == "uniqueId"

NoName == [base |-> << >>, start |-> "", end |-> ""]
NoPath == << >>

\* ------------------------------------------------------------ state
VARIABLES
    supabase,                 \* the storage client was created at startup
    files,                    \* the paths that exist on disk
    req,                      \* the query parameters of the request
    pc,                       \* where the route handler is
    start, end,               \* parseFloat(startTime), parseFloat(endTime)
    videoSourcePathForFFmpeg, \* "none" or a path
    tempInputDownloadPath,    \* "none" or "tmp"
    cleanupDownloadFiles,
    clipFilename,             \* clip_<base>_<start>-<end>.mp4, as its three parts
    localPath,                \* path.join(HOST_DOWNLOADS_PATH_IN_CONTAINER, inputFileName)
    dl,                       \* the download promise and what feeds it
    pendingUnlink,            \* fs.unlink issued by a download callback, not yet executed
    ff,                       \* the ffmpeg child process
    res,                      \* the HTTP response object
    hpc, hidx,                \* each cleanup loop: its position and file index
    io,                       \* what I/O the handler has started
    unlinks,                  \* unlink calls issued, per path
    client,                   \* the client's connection: "connected" or "gone"
    dv,                       \* a GET /api/download-video request and its answer
    app,                      \* the frontend: React state, the last render, its handlers in progress
    edge,                     \* the process-video edge function: one request, its steps and its response
    inflight,                 \* concurrent requests: each one's position and locals
    tempDir,                  \* concurrent requests: files in tempDir, with who created each
    foreign,                  \* concurrent requests: accesses to a file another request created
    written                   \* paths opened for writing

\* The state of the one request followed step by step, and the state of the
\* concurrent requests.
clipVars ==
    <<supabase, files, req, pc, start, end, videoSourcePathForFFmpeg,
      tempInputDownloadPath, cleanupDownloadFiles, clipFilename, localPath, dl,
      pendingUnlink, ff, res, hpc, hidx, io, unlinks, written, client, dv>>
concVars == <<inflight, tempDir, foreign>>
edgeVars == <<edge>>
appVars == <<app>>
vars == <<clipVars, concVars, edgeVars, appVars>>

\* The state of the programs other than the local API server's routes, and
\* what no step of the clip-video handler itself changes.
elsewhere == <<concVars, edgeVars, appVars>>
otherVars == <<elsewhere, client, dv>>

reqVars == <<supabase, req, start, end>>
srcVars ==
    <<videoSourcePathForFFmpeg, tempInputDownloadPath, cleanupDownloadFiles,
      clipFilename, localPath>>
loopVars == <<hpc, hidx>>

\* ------------------------------------------------------------ response
NewResponse ==
    [status |-> 200, headersSent |-> FALSE, writableEnded |-> FALSE,
     body |-> "none", contentType |-> "none", clipHeader |-> FALSE,
     clipName |-> NoName,
     sends |-> 0, heads |-> 0, bytes |-> 0]

\* res.status(code).json({error: ...}): one complete JSON response.
SendJson(r, code) ==
    [r EXCEPT !.status = code, !.headersSent = TRUE, !.writableEnded = TRUE,
              !.body = "json_error", !.contentType = "application/json",
              !.sends = @ + 1, !.heads = @ + 1]

\* res.status(code).send(<string>): one complete text response.
SendText(r, code) ==
    [r EXCEPT !.status = code, !.headersSent = TRUE, !.writableEnded = TRUE,
              !.body = "text", !.contentType = "text/html",
              !.sends = @ + 1, !.heads = @ + 1]

\* res.end(): flushes the headers with the current status when none were sent.
EndResponse(r) ==
    IF r.writableEnded THEN r
    ELSE [r EXCEPT !.writableEnded = TRUE, !.headersSent = TRUE,
                   !.heads = IF r.headersSent THEN @ ELSE @ + 1]

\* res.write(chunk) by the pipe: the first chunk flushes the headers.
WriteChunk(r) ==
    IF r.writableEnded THEN r
    ELSE [r EXCEPT !.headersSent = TRUE, !.body = "mp4", !.bytes = @ + 1,
                   !.heads = IF r.headersSent THEN @ ELSE @ + 1]

\* ------------------------------------------------------------ init
\* No concurrent request has arrived.
NoRequestInFlight ==
    [r \in Reqs |-> [pc |-> "idle", inputFileName |-> Absent, uniqueId |-> NoId,
                     videoSourcePathForFFmpeg |-> NoPath, cleanupDownloadFiles |-> FALSE]]

ConcIdle ==
    /\ inflight = NoRequestInFlight
    /\ tempDir = {}
    /\ foreign = {}

\* ---------------------------------------------------------------------------
\* The process-video edge function (supabase/functions/process-video/index.ts).
\* A JavaScript value is a record of its type and, for a string, of its text;
\* a text is a sequence of tokens, the empty sequence being the empty string.
None == "none"
Undefined == [t |-> "undefined", v |-> <<>>]
JsNumber == [t |-> "number", v |-> <<>>]
Str(text) == [t |-> "string", v |-> text]
IsString(x) == x.t = "string"
\* JavaScript truthiness of the values above: the number stands for a non-zero one.
JsTruthy(x) == (x.t = "string" /\ x.v # <<>>) \/ x.t = "number"

VERCEL_PREVIEW_URL == "https://clipping-generation-app-1far-cp7r9udye-zahtech123s-projects.vercel.app"
VERCEL_PRODUCTION_URL == "https://clipping-generation-app-1far.vercel.app"
LOCALHOST_URL == "http://localhost:5173"
allowedOrigins == {VERCEL_PREVIEW_URL, VERCEL_PRODUCTION_URL, LOCALHOST_URL}
\* req.headers.get('Origin') of a request without the header.
NullOrigin == "<null>"
\* Origins a request may carry: the allowed ones, none, an empty one, a
\* foreign one, and near misses of an allowed one.
RequestOrigins ==
    allowedOrigins \cup
        {NullOrigin, "", "https://evil.example", "http://localhost:5173/",
         "https://clipping-generation-app-1far.vercel.app.evil.example"}

\* The value of Access-Control-Allow-Origin in the headers returned, None when
\* the header is not set.
getDynamicCorsHeadersReflect(requestOrigin) ==
    IF requestOrigin # NullOrigin /\ requestOrigin # "" THEN requestOrigin ELSE None
getDynamicCorsHeaders(requestOrigin) ==
    IF requestOrigin # NullOrigin /\ requestOrigin # "" /\ requestOrigin \in allowedOrigins
    THEN requestOrigin
    ELSE None

\* String.prototype.includes / startsWith / endsWith / substring / trim on texts.
Includes(text, part) ==
    \E i \in 1..(Len(text) + 1 - Len(part)) : SubSeq(text, i, i + Len(part) - 1) = part
StartsWith(text, part) ==
    Len(text) >= Len(part) /\ SubSeq(text, 1, Len(part)) = part
EndsWith(text, part) ==
    Len(text) >= Len(part) /\ SubSeq(text, Len(text) - Len(part) + 1, Len(text)) = part
Ws == "ws"
RECURSIVE TrimStart(_)
TrimStart(text) ==
    IF text # <<>> /\ Head(text) = Ws THEN TrimStart(Tail(text)) ELSE text
RECURSIVE TrimEnd(_)
TrimEnd(text) ==
    IF text # <<>> /\ text[Len(text)] = Ws
    THEN TrimEnd(SubSeq(text, 1, Len(text) - 1))
    ELSE text
Trim(text) == TrimEnd(TrimStart(text))

\* The tokens of the text the AI service returns: white space, a fence of three
\* backticks, the word json, a JSON array and a JSON object.
Fence == "<backticks>"
JsonWord == "json"
JsonArray == "[]"
JsonObject == "{}"
TextTokens == {Ws, Fence, JsonWord, JsonArray, JsonObject}
MaxTextLen == 4
Texts == UNION {[1..n -> TextTokens] : n \in 0..MaxTextLen}

\* Lines 274-283: the text as handed to JSON.parse.
CleanText(highlightsText) ==
    LET trimmed == Trim(highlightsText)
        opened ==
            IF StartsWith(trimmed, <<Fence, JsonWord>>) THEN SubSeq(trimmed, 3, Len(trimmed))
            ELSE IF StartsWith(trimmed, <<Fence>>) THEN SubSeq(trimmed, 2, Len(trimmed))
            ELSE trimmed
        closed ==
            IF EndsWith(opened, <<Fence>>) THEN SubSeq(opened, 1, Len(opened) - 1)
            ELSE opened
    IN Trim(closed)
\* JSON.parse of a text: the kind of value parsed, "error" when it throws.
\* JSON allows white space around the one value.
JsonParse(text) ==
    LET value == Trim(text)
    IN IF value = <<JsonArray>> THEN "array"
       ELSE IF value = <<JsonObject>> THEN "object"
       ELSE "error"

\* new URL(text) succeeds when the text starts with a scheme.
Schemes == {"https:", "ftp:"}
ValidUrl(text) == text # <<>> /\ Head(text) \in Schemes
\* The Content-Type headers of a request: absent, JSON with and without a
\* parameter, plain text, and two non-JSON types that contain the JSON one.
JsonType == "application/json"
ContentTypes ==
    {<<>>, <<JsonType>>, <<JsonType, "; charset=utf-8">>, <<"text/plain">>,
     <<JsonType, "p">>, <<"text/plain; note=", JsonType>>}
\* The bodies of a request: not JSON at all, the JSON null, and JSON objects
\* with each of the two fields absent, empty, a string or a number.
UploadedVideoPaths == {Undefined, Str(<<>>), Str(<<"user/video.mp4">>), JsNumber}
VideoUrls ==
    {Undefined, Str(<<>>), Str(<<"https:", "//example.com/v.mov">>), Str(<<"not a url">>),
     JsNumber}
NoBody == [kind |-> None, uploadedVideoPath |-> Undefined, videoUrl |-> Undefined]
MalformedBody == [NoBody EXCEPT !.kind = "malformed"]
JsonNull == [NoBody EXCEPT !.kind = "null"]
RequestBodies ==
    {MalformedBody, JsonNull} \cup
        {[kind |-> "object", uploadedVideoPath |-> u, videoUrl |-> v] :
            u \in UploadedVideoPaths, v \in VideoUrls}
Methods == {"OPTIONS", "POST", "GET"}

\* The edge function before a request: nothing received, nothing answered.
NoEdgeResponse ==
    [status |-> 0, allowOrigin |-> None, contentType |-> None, body |-> None,
     pathOrUrl |-> <<>>, sourceType |-> None]
NoEdgeRequest ==
    [method |-> None, origin |-> NullOrigin, env |-> FALSE, contentType |-> <<>>,
     requestBody |-> NoBody]
EdgeIdle ==
    edge = [pc |-> "idle", req |-> NoEdgeRequest, responseCorsHeaders |-> None,
            originalPathOrUrl |-> <<>>, processedVideoSourceType |-> None,
            envRead |-> FALSE, supabaseCalls |-> 0, geminiCalls |-> 0,
            geminiResult |-> None, highlightsText |-> <<>>,
            response |-> NoEdgeResponse]

NoIo == [access |-> 0, ytdlp |-> 0, get |-> 0, sign |-> 0, ffmpeg |-> 0, create |-> 0]
ClipInit ==
    /\ supabase \in BOOLEAN
    /\ files \in {{}, {"local"}}
    /\ req = NoRequest
    /\ pc = "idle"
    /\ start = NaN
    /\ end = NaN
    /\ videoSourcePathForFFmpeg = "none"
    /\ tempInputDownloadPath = "none"
    /\ cleanupDownloadFiles = FALSE
    /\ clipFilename = NoName
    /\ localPath = NoPath
    /\ dl = [kind |-> "none", st |-> "idle", why |-> "none", code |-> 0]
    /\ pendingUnlink = FALSE
    /\ ff = [st |-> "none", code |-> 0]
    /\ res = NewResponse
    /\ hpc = [h \in Handlers |-> "idle"]
    /\ hidx = [h \in Handlers |-> 1]
    /\ io = NoIo
    /\ unlinks = [p \in Paths |-> 0]
    /\ written = {}
    /\ client = "connected"
    /\ dv = [st |-> "idle", status |-> 0, handlerCalled |-> FALSE]

\* ---------------------------------------------------------------------------
\* The frontend (src/App.tsx). React state, the values the last render gave
\* to its handlers, and the asynchronous handlers in progress.
NumClips == 2
NumInvocations == 2
MaxOpens == 2
ClipIds == 1..NumClips
Invocations == 1..NumInvocations
NoClip == 0
\* What the local server sends on GET /api/hello, and what the frontend expects.
HelloMessage == "Hello from local API!"
ExpectedMessage == "Hello from local API!"
NoMessage == "<undefined>"
NoHello == [kind |-> None, ok |-> FALSE, json |-> None, message |-> NoMessage]
\* What the frontend sees of a render: the state its handlers and its buttons read.
View(a) ==
    [apiStatus |-> a.apiStatus, processing |-> a.processing,
     processingClipId |-> a.processingClipId,
     processedVideoDetails |-> a.processedVideoDetails, clips |-> a.clips]
NoDownload == [pc |-> "idle", clip |-> NoClip]
AppBeforeMount ==
    [apiStatus |-> "pending", processing |-> FALSE, processingClipId |-> NoClip,
     processedVideoDetails |-> FALSE, clips |-> [c \in ClipIds |-> "absent"],
     render |-> [apiStatus |-> "pending", processing |-> FALSE, processingClipId |-> NoClip,
                 processedVideoDetails |-> FALSE, clips |-> [c \in ClipIds |-> "absent"]],
     health |-> "idle", hello |-> NoHello, submit |-> "idle",
     download |-> [i \in Invocations |-> NoDownload],
     uploads |-> 0, invokes |-> 0, clipRequests |-> 0, opens |-> 0, original |-> None]
AppIdle == app = AppBeforeMount

Init == ClipInit /\ ConcIdle /\ EdgeIdle /\ AppIdle

\* ------------------------------------------------------------ request
\* Express dispatches one GET /api/clip-video to the route handler.
Receive ==
    /\ pc = "idle"
    /\ \E r \in Requests : req' = r
    /\ pc' = "validate"
    /\ UNCHANGED <<otherVars, supabase, files, start, end, srcVars, dl, pendingUnlink, ff,
                   res, loopVars, io, unlinks, written>>

\* The time window the handler refuses.
InvalidTimes(s, e) == IsNaN(s) \/ IsNaN(e) \/ Lt(s, Num(0)) \/ Le(e, s)

\* Validation that lets a request without any source description through.
ValidateNoSourceCheck ==
    /\ pc = "validate"
    /\ IF req.startTime = Absent \/ req.endTime = Absent
       THEN /\ res' = SendJson(res, 400)
            /\ pc' = "returned"
            /\ UNCHANGED <<start, end>>
       ELSE /\ start' = ParseFloat(req.startTime)
            /\ end' = ParseFloat(req.endTime)
            /\ IF InvalidTimes(start', end')
               THEN /\ res' = SendJson(res, 400)
                    /\ pc' = "returned"
               ELSE IF Truthy(req.identifier) /\ DecodeThrows(req.identifier)
               THEN /\ res' = res
                    /\ pc' = "threw"
               ELSE /\ res' = res
                    /\ pc' = "source"
    /\ UNCHANGED <<otherVars, supabase, files, req, srcVars, dl, pendingUnlink, ff,
                   loopVars, io, unlinks, written>>

\* Parameter validation, up to decodeURIComponent.
Validate ==
    /\ pc = "validate"
    /\ IF req.startTime = Absent \/ req.endTime = Absent
       THEN /\ res' = SendJson(res, 400)
            /\ pc' = "returned"
            /\ UNCHANGED <<start, end>>
       ELSE IF ~Truthy(req.inputFileName)
                /\ (~Truthy(req.identifier) \/ ~Truthy(req.sourceType))
       THEN /\ res' = SendJson(res, 400)
            /\ pc' = "returned"
            /\ UNCHANGED <<start, end>>
       ELSE /\ start' = ParseFloat(req.startTime)
            /\ end' = ParseFloat(req.endTime)
            /\ IF InvalidTimes(start', end')
               THEN /\ res' = SendJson(res, 400)
                    /\ pc' = "returned"
               ELSE IF Truthy(req.identifier) /\ DecodeThrows(req.identifier)
               THEN \* URIError leaves the async handler: it writes no response
                    /\ res' = res
                    /\ pc' = "threw"
               ELSE /\ res' = res
                    /\ pc' = "source"
    /\ UNCHANGED <<otherVars, supabase, files, req, srcVars, dl, pendingUnlink, ff,
                   loopVars, io, unlinks, written>>

\* Step 1: pick the source and start the download it needs.
DetermineSource ==
    /\ pc = "source"
    /\ clipFilename' =
          [base |-> IF Truthy(req.inputFileName)
                    THEN BasenameWithoutExt(req.inputFileName)
                    ELSE IF Truthy(req.identifier) THEN <<UniqueId>> ELSE <<"video">>,
           start |-> NumberToString(start),
           end |-> NumberToString(end)]
    /\ IF Truthy(req.inputFileName)
       THEN \* path.join(HOST_DOWNLOADS_PATH_IN_CONTAINER, inputFileName); await fsp.access
            /\ videoSourcePathForFFmpeg' = "local"
            /\ localPath' = PathJoin(HostDownloadsPath, req.inputFileName)
            /\ io' = [io EXCEPT !.access = @ + 1]
            /\ pc' = "access"
            /\ UNCHANGED <<tempInputDownloadPath, cleanupDownloadFiles, dl, res, files, written>>
       ELSE IF Truthy(req.sourceType) /\ Truthy(req.identifier)
       THEN /\ tempInputDownloadPath' = "tmp"
            /\ videoSourcePathForFFmpeg' = "tmpmp4"
            /\ cleanupDownloadFiles' = TRUE
            /\ localPath' = localPath
            /\ IF req.sourceType = "external_url"
               THEN IF IsYouTube(req.identifier)
                    THEN \* spawn('yt-dlp', ...)
                         /\ io' = [io EXCEPT !.ytdlp = @ + 1]
                         /\ dl' = [kind |-> "ytdlp", st |-> "running", why |-> "none", code |-> 0]
                         /\ pc' = "download"
                         /\ UNCHANGED <<res, files, written>>
                    ELSE \* fs.createWriteStream, then https.get
                         /\ files' = files \cup {"tmpmp4"}
                         /\ written' = written \cup {"tmpmp4"}
                         /\ IF IsHttpsUrl(req.identifier)
                            THEN /\ io' = [io EXCEPT !.create = @ + 1, !.get = @ + 1]
                                 /\ dl' = [kind |-> "direct", st |-> "getting", why |-> "none", code |-> 0]
                            ELSE \* https.get throws inside the executor: the promise rejects
                                 /\ io' = [io EXCEPT !.create = @ + 1]
                                 /\ dl' = [kind |-> "direct", st |-> "rejected", why |-> "throw", code |-> 0]
                         /\ pc' = "download"
                         /\ res' = res
               ELSE IF req.sourceType = "supabase"
               THEN IF ~supabase
                    THEN /\ res' = SendJson(res, 500)
                         /\ pc' = "returned"
                         /\ UNCHANGED <<dl, io, files, written>>
                    ELSE \* supabase.storage.from('raw-videos').createSignedUrl(...)
                         /\ io' = [io EXCEPT !.sign = @ + 1]
                         /\ dl' = [kind |-> "supabase", st |-> "signing", why |-> "none", code |-> 0]
                         /\ pc' = "download"
                         /\ UNCHANGED <<res, files, written>>
               ELSE /\ res' = SendJson(res, 400)
                    /\ pc' = "returned"
                    /\ UNCHANGED <<dl, io, files, written>>
       ELSE /\ res' = SendJson(res, 400)
            /\ pc' = "returned"
            /\ UNCHANGED <<videoSourcePathForFFmpeg, tempInputDownloadPath,
                           cleanupDownloadFiles, localPath, dl, io, files, written>>
    /\ UNCHANGED <<otherVars, reqVars, pendingUnlink, ff, loopVars, unlinks>>

\* await fsp.access(videoSourcePathForFFmpeg) settles.
LocalAccess ==
    /\ pc = "access"
    /\ IF "local" \in files
       THEN \* downloadPromise is the resolved default
            /\ pc' = "headers"
            /\ res' = res
       ELSE /\ res' = SendText(res, 404)
            /\ pc' = "returned"
    /\ UNCHANGED <<otherVars, reqVars, files, srcVars, dl, pendingUnlink, ff, loopVars,
                   io, unlinks, written>>

\* ------------------------------------------------------------ cleanup loops
\* const filesToAttemptDelete = [videoSourcePathForFFmpeg] (+ tempInputDownloadPath)
FilesToAttemptDelete ==
    IF tempInputDownloadPath # "none" /\ videoSourcePathForFFmpeg # tempInputDownloadPath
    THEN <<videoSourcePathForFFmpeg, tempInputDownloadPath>>
    ELSE <<videoSourcePathForFFmpeg>>

\* CloseFinish with the `!res.headersSent` test left out.
CloseFinishNoGuard(r, code) ==
    EndResponse(IF code # 0 THEN SendJson(r, 500) ELSE r)

\* The tail of the 'close' listener: the status for a failed run, then res.end().
CloseFinish(r, code) ==
    EndResponse(IF code # 0 /\ ~r.headersSent THEN SendJson(r, 500) ELSE r)

\* ErrorFinish with the `if (!res.headersSent)` test left out.
ErrorFinishNoGuard(r) == SendJson(r, 500)

\* The tail of the 'error' listener.
ErrorFinish(r) == IF ~r.headersSent THEN SendJson(r, 500) ELSE r

\* The tail of the catch block.
CatchFinish(r) == IF ~r.headersSent THEN SendJson(r, 500) ELSE r

Finish(h, r, code) ==
    CASE h = "close" -> CloseFinish(r, code)
      [] h = "error" -> ErrorFinish(r)
      [] OTHER -> CatchFinish(r)

\* StartHandler with the `if (cleanupDownloadFiles)` test left out.
StartHandlerNoGuard(h, code) ==
    /\ hpc' = [hpc EXCEPT ![h] = "stat"]
    /\ hidx' = [hidx EXCEPT ![h] = 1]
    /\ res' = res
    /\ pc' = IF h = "catch" THEN "catch" ELSE pc

\* Entering one of the three copies of the cleanup: `if (cleanupDownloadFiles)`
\* starts the delete loop (it suspends at its first await), otherwise the
\* listener runs straight to its tail.
StartHandler(h, code) ==
    IF cleanupDownloadFiles
    THEN /\ hpc' = [hpc EXCEPT ![h] = "stat"]
         /\ hidx' = [hidx EXCEPT ![h] = 1]
         /\ res' = res
         /\ pc' = IF h = "catch" THEN "catch" ELSE pc
    ELSE /\ hpc' = [hpc EXCEPT ![h] = "done"]
         /\ hidx' = hidx
         /\ res' = Finish(h, res, code)
         /\ pc' = IF h = "catch" THEN "returned" ELSE pc

\* The loop moves to its next file, or the listener runs to its tail.
Advance(h) ==
    IF hidx[h] < Len(FilesToAttemptDelete)
    THEN /\ hidx' = [hidx EXCEPT ![h] = @ + 1]
         /\ hpc' = [hpc EXCEPT ![h] = "stat"]
         /\ res' = res
         /\ pc' = pc
    ELSE /\ hidx' = hidx
         /\ hpc' = [hpc EXCEPT ![h] = "done"]
         /\ res' = Finish(h, res, ff.code)
         /\ pc' = IF h = "catch" THEN "returned" ELSE pc

\* await fsp.stat(fileToDelete).then(() => true).catch(() => false): when the
\* file is there, fsp.unlink is issued and the loop suspends on it.
CleanupStat(h) ==
    /\ hpc[h] = "stat"
    /\ LET f == FilesToAttemptDelete[hidx[h]] IN
         IF f \in files
         THEN /\ hpc' = [hpc EXCEPT ![h] = "unlink"]
              /\ unlinks' = [unlinks EXCEPT ![f] = @ + 1]
              /\ UNCHANGED <<hidx, res, pc>>
         ELSE /\ Advance(h)
              /\ unlinks' = unlinks
    /\ UNCHANGED <<otherVars, reqVars, files, srcVars, dl, pendingUnlink, ff, io, written>>

\* CleanupUnlink without the try/catch around the unlink: the ENOENT of a file
\* already removed leaves the listener.
CleanupUnlinkNoCatch(h) ==
    /\ hpc[h] = "unlink"
    /\ files' = files \ {FilesToAttemptDelete[hidx[h]]}
    /\ IF FilesToAttemptDelete[hidx[h]] \in files
       THEN Advance(h)
       ELSE /\ hpc' = [hpc EXCEPT ![h] = "threw"]
            /\ UNCHANGED <<hidx, res, pc>>
    /\ UNCHANGED <<otherVars, reqVars, srcVars, dl, pendingUnlink, ff, io, unlinks, written>>

\* await fsp.unlink(fileToDelete) settles: the file is gone (an ENOENT from a
\* file already removed is caught and logged).
CleanupUnlink(h) ==
    /\ hpc[h] = "unlink"
    /\ files' = files \ {FilesToAttemptDelete[hidx[h]]}
    /\ Advance(h)
    /\ UNCHANGED <<otherVars, reqVars, srcVars, dl, pendingUnlink, ff, io, unlinks, written>>

\* ------------------------------------------------------------ downloads
\* yt-dlp 'close' that probes the .mp4 path only.
YtDlpCloseNoFallback(code, left) ==
    /\ dl.kind = "ytdlp"
    /\ dl.st = "running"
    /\ files' = files \cup left
    /\ written' = written \cup left
    /\ IF code = 0 /\ "tmpmp4" \in files'
       THEN dl' = [dl EXCEPT !.st = "resolved", !.code = code]
       ELSE dl' = [dl EXCEPT !.st = "rejected", !.code = code]
    /\ io' = [io EXCEPT !.access = @ + 1]
    /\ UNCHANGED <<otherVars, reqVars, pc, srcVars, pendingUnlink, ff, res, loopVars, unlinks>>

\* yt-dlp 'close': the exit code, and whatever files the tool left.
YtDlpClose(code, left) ==
    /\ dl.kind = "ytdlp"
    /\ dl.st = "running"
    /\ files' = files \cup left
    /\ written' = written \cup left
    /\ IF code = 0
       THEN IF "tmpmp4" \in files'
            THEN /\ dl' = [dl EXCEPT !.st = "resolved", !.code = code]
                 /\ io' = [io EXCEPT !.access = @ + 1]
                 /\ UNCHANGED videoSourcePathForFFmpeg
            ELSE IF "tmp" \in files'
            THEN /\ dl' = [dl EXCEPT !.st = "resolved", !.code = code]
                 /\ io' = [io EXCEPT !.access = @ + 2]
                 /\ videoSourcePathForFFmpeg' = tempInputDownloadPath
            ELSE /\ dl' = [dl EXCEPT !.st = "rejected", !.why = "nofile", !.code = code]
                 /\ io' = [io EXCEPT !.access = @ + 2]
                 /\ UNCHANGED videoSourcePathForFFmpeg
       ELSE /\ dl' = [dl EXCEPT !.st = "rejected", !.why = "exitcode", !.code = code]
            /\ UNCHANGED <<io, videoSourcePathForFFmpeg>>
    /\ UNCHANGED <<otherVars, reqVars, pc, tempInputDownloadPath, cleanupDownloadFiles,
                   clipFilename, localPath, pendingUnlink, ff, res, loopVars, unlinks>>

\* yt-dlp 'error': the tool could not be started.
YtDlpError ==
    /\ dl.kind = "ytdlp"
    /\ dl.st = "running"
    /\ dl' = [dl EXCEPT !.st = "rejected", !.why = "spawn", !.code = -2]
    /\ UNCHANGED <<otherVars, reqVars, files, pc, srcVars, pendingUnlink, ff, res,
                   loopVars, io, unlinks, written>>

\* createSignedUrl settles: with a URL the download starts as for a direct URL,
\* with an error or no URL the promise rejects.
\* createSignedUrl settles and the GET is issued whatever it returned.
SignedUrlResultIgnored(ok) ==
    /\ dl.kind = "supabase"
    /\ dl.st = "signing"
    /\ files' = files \cup {"tmpmp4"}
    /\ written' = written \cup {"tmpmp4"}
    /\ io' = [io EXCEPT !.create = @ + 1, !.get = @ + 1]
    /\ dl' = [dl EXCEPT !.st = "getting", !.why = IF ok THEN "none" ELSE "signedurl"]
    /\ UNCHANGED <<otherVars, reqVars, pc, srcVars, pendingUnlink, ff, res, loopVars, unlinks>>

SignedUrlResult(ok) ==
    /\ dl.kind = "supabase"
    /\ dl.st = "signing"
    /\ IF ok
       THEN /\ files' = files \cup {"tmpmp4"}
            /\ written' = written \cup {"tmpmp4"}
            /\ io' = [io EXCEPT !.create = @ + 1, !.get = @ + 1]
            /\ dl' = [dl EXCEPT !.st = "getting"]
       ELSE /\ dl' = [dl EXCEPT !.st = "rejected", !.why = "signedurl"]
            /\ UNCHANGED <<files, written, io>>
    /\ UNCHANGED <<otherVars, reqVars, pc, srcVars, pendingUnlink, ff, res, loopVars, unlinks>>

\* The https.get response callback.
HttpResponse(statusCode) ==
    /\ dl.kind \in {"direct", "supabase"}
    /\ dl.st = "getting"
    /\ IF statusCode # 200
       THEN \* fileStream.close(); fs.unlink(path, () => {}); reject
            /\ pendingUnlink' = TRUE
            /\ unlinks' = [unlinks EXCEPT !["tmpmp4"] = @ + 1]
            /\ dl' = [dl EXCEPT !.st = "rejected", !.why = "status"]
       ELSE \* response.pipe(fileStream)
            /\ dl' = [dl EXCEPT !.st = "piping"]
            /\ UNCHANGED <<pendingUnlink, unlinks>>
    /\ UNCHANGED <<otherVars, reqVars, files, pc, srcVars, ff, res, loopVars, io, written>>

\* An 'error' listener that issues the GET a second time.
HttpErrorRetry ==
    /\ dl.kind \in {"direct", "supabase"}
    /\ dl.st = "getting"
    /\ io.get < 2
    /\ io' = [io EXCEPT !.get = @ + 1]
    /\ UNCHANGED <<otherVars, reqVars, files, pc, srcVars, dl, pendingUnlink, ff, res,
                   loopVars, unlinks, written>>

\* The request's 'error' listener.
HttpError ==
    /\ dl.kind \in {"direct", "supabase"}
    /\ dl.st = "getting"
    /\ pendingUnlink' = TRUE
    /\ unlinks' = [unlinks EXCEPT !["tmpmp4"] = @ + 1]
    /\ dl' = [dl EXCEPT !.st = "rejected", !.why = "network"]
    /\ UNCHANGED <<otherVars, reqVars, files, pc, srcVars, ff, res, loopVars, io, written>>

\* fileStream 'finish'.
DownloadFinish ==
    /\ dl.st = "piping"
    /\ dl' = [dl EXCEPT !.st = "resolved"]
    /\ UNCHANGED <<otherVars, reqVars, files, pc, srcVars, pendingUnlink, ff, res,
                   loopVars, io, unlinks, written>>

\* The body stream fails after the 200: no listener settles the promise.
DownloadBodyError ==
    /\ dl.st = "piping"
    /\ dl' = [dl EXCEPT !.st = "stalled"]
    /\ UNCHANGED <<otherVars, reqVars, files, pc, srcVars, pendingUnlink, ff, res,
                   loopVars, io, unlinks, written>>

\* The fs.unlink of a download callback executes.
DownloadUnlinkDone ==
    /\ pendingUnlink
    /\ pendingUnlink' = FALSE
    /\ files' = files \ {"tmpmp4"}
    /\ UNCHANGED <<otherVars, reqVars, pc, srcVars, dl, ff, res, loopVars, io, unlinks, written>>

\* AwaitDownload with a catch block that answers without deleting anything.
AwaitDownloadNoCleanup ==
    /\ pc = "download"
    /\ dl.st \in {"resolved", "rejected"}
    /\ IF dl.st = "resolved"
       THEN /\ pc' = "headers"
            /\ UNCHANGED <<res, loopVars>>
       ELSE /\ pc' = "returned"
            /\ res' = CatchFinish(res)
            /\ hpc' = [hpc EXCEPT !["catch"] = "done"]
            /\ hidx' = hidx
    /\ UNCHANGED <<otherVars, reqVars, files, srcVars, dl, pendingUnlink, ff, io, unlinks, written>>

\* AwaitDownload with the rejection swallowed: step 2 goes on to ffmpeg.
AwaitDownloadIgnoresRejection ==
    /\ pc = "download"
    /\ dl.st \in {"resolved", "rejected"}
    /\ pc' = "headers"
    /\ UNCHANGED <<otherVars, reqVars, files, srcVars, dl, pendingUnlink, ff, res, loopVars,
                   io, unlinks, written>>

\* Step 2: await downloadPromise settles; a rejection enters the catch block.
AwaitDownload ==
    /\ pc = "download"
    /\ dl.st \in {"resolved", "rejected"}
    /\ IF dl.st = "resolved"
       THEN /\ pc' = "headers"
            /\ UNCHANGED <<res, loopVars>>
       ELSE StartHandler("catch", 0)
    /\ UNCHANGED <<otherVars, reqVars, files, srcVars, dl, pendingUnlink, ff, io, unlinks, written>>

\* ------------------------------------------------------------ ffmpeg
\* SetHeaders with the X-Clip-Filename header forgotten.
SetHeadersNoFilename ==
    /\ pc = "headers"
    /\ res' = [res EXCEPT !.contentType = "video/mp4"]
    /\ pc' = "spawn"
    /\ UNCHANGED <<otherVars, reqVars, files, srcVars, dl, pendingUnlink, ff, loopVars,
                   io, unlinks, written>>

\* res.setHeader('Content-Type', 'video/mp4'); res.setHeader('X-Clip-Filename', ...)
SetHeaders ==
    /\ pc = "headers"
    /\ res' = [res EXCEPT !.contentType = "video/mp4", !.clipHeader = TRUE,
                          !.clipName = clipFilename]
    /\ pc' = "spawn"
    /\ UNCHANGED <<otherVars, reqVars, files, srcVars, dl, pendingUnlink, ff, loopVars,
                   io, unlinks, written>>

\* spawn('ffmpeg', ffmpegArgs), stdout.pipe(res), and the listeners; the
\* handler then returns. The process starts, or it will report 'error'.
SpawnFfmpeg(started) ==
    /\ pc = "spawn"
    /\ io' = [io EXCEPT !.ffmpeg = @ + 1]
    /\ ff' = [ff EXCEPT !.st = IF started THEN "running" ELSE "spawnfail"]
    /\ pc' = "returned"
    /\ UNCHANGED <<otherVars, reqVars, files, srcVars, dl, pendingUnlink, res, loopVars,
                   unlinks, written>>

\* ffmpeg writes a chunk to stdout; the pipe writes it to res.
FfmpegData ==
    /\ ff.st = "running"
    /\ res.bytes < MaxChunks
    /\ res' = WriteChunk(res)
    /\ UNCHANGED <<otherVars, reqVars, files, pc, srcVars, dl, pendingUnlink, ff,
                   loopVars, io, unlinks, written>>

\* stdout ends; the pipe calls res.end().
FfmpegStdoutEnd ==
    /\ ff.st = "running"
    /\ ff' = [ff EXCEPT !.st = "ended"]
    /\ res' = EndResponse(res)
    /\ UNCHANGED <<otherVars, reqVars, files, pc, srcVars, dl, pendingUnlink, loopVars,
                   io, unlinks, written>>

\* ffmpegProcess.on('close', async (code) => ...) for a process that ran.
FfmpegClose(code) ==
    /\ ff.st = "ended"
    /\ ff' = [st |-> "closed", code |-> code]
    /\ StartHandler("close", code)
    /\ UNCHANGED <<otherVars, reqVars, files, srcVars, dl, pendingUnlink, io, unlinks, written>>

\* ffmpegProcess.on('error', async (spawnError) => ...).
FfmpegError ==
    /\ ff.st = "spawnfail"
    /\ ff' = [ff EXCEPT !.st = "errored"]
    /\ StartHandler("error", 0)
    /\ UNCHANGED <<otherVars, reqVars, files, srcVars, dl, pendingUnlink, io, unlinks, written>>

\* The 'close' event that follows 'error' for a process that never started: its
\* code is the negated errno.
FfmpegCloseAfterError ==
    /\ ff.st = "errored"
    /\ ff' = [st |-> "closed", code |-> -2]
    /\ StartHandler("close", -2)
    /\ UNCHANGED <<otherVars, reqVars, files, srcVars, dl, pendingUnlink, io, unlinks, written>>

\* ------------------------------------------------------------ specification
Next ==
    \/ Receive
    \/ Validate
    \/ DetermineSource
    \/ LocalAccess
    \/ \E code \in {0, 1}, left \in SUBSET TempPaths : YtDlpClose(code, left)
    \/ YtDlpError
    \/ \E ok \in BOOLEAN : SignedUrlResult(ok)
    \/ \E statusCode \in {200, 404} : HttpResponse(statusCode)
    \/ HttpError
    \/ DownloadFinish
    \/ DownloadBodyError
    \/ DownloadUnlinkDone
    \/ AwaitDownload
    \/ SetHeaders
    \/ \E started \in BOOLEAN : SpawnFfmpeg(started)
    \/ FfmpegData
    \/ FfmpegStdoutEnd
    \/ \E code \in {0, 1} : FfmpegClose(code)
    \/ FfmpegError
    \/ FfmpegCloseAfterError
    \/ \E h \in Handlers : CleanupStat(h)
    \/ \E h \in Handlers : CleanupUnlink(h)

Spec == Init /\ [][Next]_vars

\* ------------------------------------------------------------ derived
Handled == pc \notin {"idle", "validate"}
DownloadBranch == cleanupDownloadFiles
LocalBranch == Handled /\ Truthy(req.inputFileName)
CloseDone == hpc["close"] = "done"
ErrorDone == hpc["error"] = "done"
SpawnFailed == ff.st = "errored" \/ (ff.st = "closed" /\ ff.code < 0)
Succeeded == ff.st = "closed" /\ ff.code = 0

\* The two paths the cleanup loops know: the ffmpeg input and the yt-dlp base.
SourceFiles == {"tmp", "tmpmp4"}

\* C1: for a request that took the download branch, whenever its response has
\* ended no file carrying its identifier exists; stated here for the two paths
\* the cleanup loops look at, input_<id>.tmp.mp4 and input_<id>.tmp.
C1_NoTempFileAfterResponse ==
    (DownloadBranch /\ res.writableEnded) => files \cap SourceFiles = {}

\* C1 for every artifact of the download step, read only once a cleanup loop of
\* the request is through: the loops never look at what yt-dlp left beside the
\* two candidate paths, so this fails as well.
C1_NoArtifactLeft ==
    (DownloadBranch /\ res.writableEnded
        /\ (CloseDone \/ ErrorDone \/ hpc["catch"] = "done")) =>
        files \cap TempPaths = {}

\* The time window the interface promises to accept: both values present,
\* finite numbers, 0 <= startTime < endTime.
WindowValid(r) ==
    /\ r.startTime # Absent
    /\ r.endTime # Absent
    /\ IsFinite(ParseFloat(r.startTime))
    /\ IsFinite(ParseFloat(r.endTime))
    /\ 0 <= ParseFloat(r.startTime).n
    /\ ParseFloat(r.startTime).n < ParseFloat(r.endTime).n

\* C2: a request whose startTime/endTime are missing or are not finite numbers
\* with 0 <= startTime < endTime is answered 400, and no I/O (access check,
\* download, signed-URL request, spawn, file creation) precedes that answer.
\* Stated for requests whose identifier, if any, decodes.
C2_InvalidWindowRejected ==
    (Handled /\ ~WindowValid(req) /\ ~DecodeThrows(req.identifier)) =>
        /\ res.status = 400
        /\ res.sends = 1
        /\ io = NoIo
        /\ written = {}

\* The part of C2 the handler does keep: a 400 is sent before any I/O.
C2_NoIoBefore400 == res.status = 400 => (io = NoIo /\ written = {} /\ res.sends = 1)

\* The failure a sent error response stands for, read off the handler's state.
FailureKind ==
    IF videoSourcePathForFFmpeg = "local" /\ io.ffmpeg = 0 /\ pc = "returned"
    THEN "not_found"
    ELSE IF dl.st = "rejected" \/ io.ffmpeg > 0
            \/ (cleanupDownloadFiles /\ req.sourceType = "supabase" /\ ~supabase)
    THEN "downstream"
    ELSE "bad_request"

StatusFor(kind) ==
    CASE kind = "not_found" -> 404
      [] kind = "downstream" -> 500
      [] OTHER -> 400

\* C3: every failure answered before any response byte was sent carries a JSON
\* body {error: <string>} and the status of its kind (400, 404, 500).
C3_JsonErrorBody ==
    res.sends > 0 =>
        /\ res.body = "json_error"
        /\ res.status = StatusFor(FailureKind)

\* The part of C3 the handler does keep: the status reflects the failure kind.
C3_StatusReflectsKind == res.sends > 0 => res.status = StatusFor(FailureKind)

\* C4: with a temporary downloaded source every temp file is deleted exactly
\* once over all exit paths: no path has unlink issued for it twice, and once
\* the exit path's cleanup has run none of them is left.
C4_DeletedExactlyOnce ==
    DownloadBranch =>
        \A p \in SourceFiles :
            /\ unlinks[p] <= 1
            /\ ((CloseDone \/ ErrorDone \/ hpc["catch"] = "done") => p \notin files)

\* The part of C4 the handler does keep: once a cleanup loop is through, neither
\* candidate path is left.
C4_NoneLeftAfterCleanup ==
    DownloadBranch =>
        \A p \in SourceFiles :
            (CloseDone \/ ErrorDone \/ hpc["catch"] = "done") => p \notin files

\* C5: a request served from inputFileName never deletes or writes the local
\* source: cleanupDownloadFiles stays false, no unlink is issued, no path is
\* opened for writing, and the local file is there after a step iff it was before.
C5_LocalSourceUntouched ==
    /\ [](LocalBranch =>
            /\ ~cleanupDownloadFiles
            /\ \A p \in Paths : unlinks[p] = 0
            /\ written = {}
            /\ ~pendingUnlink)
    /\ [][LocalBranch => (("local" \in files) <=> ("local" \in files'))]_vars

C5_Witness ==
    /\ LocalBranch
    /\ "local" \in files
    /\ SpawnFailed
    /\ ErrorDone
    /\ CloseDone

C7_FailedRunAnswered500 ==
    (ff.st = "closed" /\ ff.code # 0 /\ CloseDone /\ res.bytes = 0) =>
        /\ res.status = 500
        /\ res.body = "json_error"

\* The part of C7 the handler does keep: after output bytes a failed run only
\* ends the connection.
C7_AfterBytesOnlyEnd ==
    (ff.st = "closed" /\ ff.code # 0 /\ CloseDone /\ res.bytes > 0) =>
        /\ res.status = 200
        /\ res.sends = 0
        /\ res.writableEnded

C9_HeadersBeforeSpawn ==
    /\ [](Succeeded =>
            /\ res.status = 200
            /\ res.contentType = "video/mp4"
            /\ res.clipHeader
            /\ res.sends = 0)
    /\ [](res.bytes > 0 => io.ffmpeg > 0)
    /\ [][io.ffmpeg' > io.ffmpeg =>
            /\ res.contentType = "video/mp4"
            /\ res.clipHeader
            /\ ~res.headersSent
            /\ res.bytes = 0]_vars

C9_Witness ==
    /\ Succeeded
    /\ CloseDone
    /\ res.bytes > 0
    /\ res.writableEnded

\* The phase of the request, read off the handler's state.
Phase ==
    IF res.sends > 0 \/ pc = "threw" \/ (ff.st = "closed" /\ ff.code # 0 /\ CloseDone)
    THEN "Failed"
    ELSE IF Succeeded /\ CloseDone THEN "Completed"
    ELSE IF pc = "idle" THEN "Idle"
    ELSE IF pc = "validate" THEN "Validating"
    ELSE IF pc \in {"source", "access", "download", "catch"} THEN "Materializing"
    ELSE IF res.bytes > 0 \/ ff.st \in {"ended", "closed"} THEN "Streaming"
    ELSE "Extracting"

Rank(ph) ==
    CASE ph = "Idle" -> 0
      [] ph = "Validating" -> 1
      [] ph = "Materializing" -> 2
      [] ph = "Extracting" -> 3
      [] ph = "Streaming" -> 4
      [] OTHER -> 5

\* The source is there: the local file was confirmed, or the download resolved.
Materialized ==
    IF Truthy(req.inputFileName) THEN "local" \in files ELSE dl.st = "resolved"

\* C10: a request moves Validating -> Materializing -> Extracting -> Streaming
\* -> Completed | Failed, one phase at a time unless it fails; ffmpeg is spawned
\* only from Extracting with the source materialized, never after a failure.
C10_PhaseOrder ==
    /\ [][Phase' # Phase =>
            /\ Phase \notin {"Completed", "Failed"}
            /\ (Phase' = "Failed" \/ Rank(Phase') = Rank(Phase) + 1)]_vars
    /\ [][io.ffmpeg' > io.ffmpeg =>
            /\ Phase = "Extracting"
            /\ Materialized
            /\ io.ffmpeg = 0]_vars
    /\ [](io.ffmpeg > 0 => (Materialized /\ pc \notin {"threw", "catch"}))

C10_Witness ==
    /\ Phase = "Failed"
    /\ res.bytes > 0
    /\ ff.code = 1
    /\ CloseDone

\* Failed is entered from each of the other non-terminal phases too.
C10_FailedFromValidating == Phase = "Failed" /\ req.startTime = Absent
C10_FailedFromMaterializing == Phase = "Failed" /\ dl.st = "rejected" /\ res.status = 500
C10_FailedFromExtracting == Phase = "Failed" /\ ff.st = "errored" /\ res.bytes = 0

\* ------------------------------------------------------------ C11
\* Nothing more can happen for the request: no handler step, no callback of a
\* download or a subprocess is left to run.
Quiescent == ~ENABLED Next

\* C11: every request ends with its HTTP response ended; read on finite runs,
\* a request for which nothing more can happen has an ended response, whatever
\* the outcome of its download and its subprocesses.
C11_EveryRequestAnswered == (Handled /\ Quiescent) => res.writableEnded

\* The same for the outcome the claim names first: a read or write error in the
\* middle of the download body of a well-formed request.
C11_BodyErrorAnswered ==
    (Handled /\ Quiescent /\ ~DecodeThrows(req.identifier)) => res.writableEnded

\* A request that does end: every outcome reported, the response ended.
C11_AnsweredRun == Handled /\ Quiescent /\ res.writableEnded /\ dl.st = "rejected"

\* ------------------------------------------------------------ C13
\* The two source descriptions of a request, supplied when non-empty.
HasFile == Truthy(req.inputFileName)
HasPair == Truthy(req.identifier) /\ Truthy(req.sourceType)

\* C13 as stated: a request that has passed parameter validation supplies
\* exactly one of inputFileName and the pair (identifier, sourceType).
C13_ExactlyOneSource == pc = "source" => (HasFile # HasPair)

\* C13: a request that passes parameter validation supplies at least one of
\* inputFileName and the pair (identifier, sourceType); one supplying neither is
\* answered 400 with a JSON error before any I/O; one supplying both, with a
\* valid window and a decodable identifier, passes validation.
C13_AtLeastOneSource ==
    /\ [][(pc = "validate" /\ pc' \in {"source", "threw"}) => (HasFile \/ HasPair)]_vars
    /\ []((Handled /\ ~HasFile /\ ~HasPair) =>
             /\ pc = "returned"
             /\ res.status = 400
             /\ res.body = "json_error"
             /\ io = NoIo
             /\ files \cap TempPaths = {})
    /\ [][(pc = "validate" /\ HasFile /\ HasPair /\ ~InvalidTimes(start', end')
            /\ req.startTime # Absent /\ req.endTime # Absent
            /\ ~DecodeThrows(req.identifier))
           => pc' = "source"]_vars

\* A request supplying both descriptions has passed validation and is being
\* served from inputFileName.
C13_Witness == pc = "access" /\ HasFile /\ HasPair

\* A request supplying neither has been refused.
C13_NeitherRefused == pc = "returned" /\ ~HasFile /\ ~HasPair /\ req.startTime # Absent
                      /\ req.endTime # Absent

\* ------------------------------------------------------------ C14
\* No download, signed-URL request or temp file has been started.
NoDownloadStarted ==
    /\ io.ytdlp = 0
    /\ io.get = 0
    /\ io.sign = 0
    /\ io.create = 0
    /\ files \cap TempPaths = {}

\* C14: a request supplying both inputFileName and (identifier, sourceType)
\* is served from inputFileName whatever the pair is: the handler goes on to
\* the local-file branch, starts no download and creates no temp file, so the
\* outcome does not depend on the identifier or the sourceType.
C14_FilePrecedence ==
    (Handled /\ HasFile /\ HasPair /\ WindowValid(req)) =>
        /\ pc # "threw"
        /\ videoSourcePathForFFmpeg \in {"none", "local"}
        /\ NoDownloadStarted

\* What the code does keep: no download is started when inputFileName is given.
C14_NoDownloadForFile == (Handled /\ HasFile) => NoDownloadStarted

\* The local-file branch taken by a request that supplies both descriptions.
C14_BothServedLocally == HasFile /\ HasPair /\ pc = "returned" /\ Succeeded /\ CloseDone

\* ------------------------------------------------------------ C15
\* The decimal text of the number each startTime / endTime value parses to.
C15_NumberText(tok) ==
    CASE tok = "0" -> "0"
      [] tok = "10" -> "10"
      [] tok = "10.0" -> "10"
      [] tok = "20" -> "20"
      [] tok = "Infinity" -> "Infinity"
      [] OTHER -> "NaN"

\* The base name, without extension, of each file name a request may carry.
C15_BaseText(name) ==
    CASE name = "clip_source.mp4" -> <<"clip_source">>
      [] name = "take.1.mp4" -> <<"take", "1">>
      [] name = TraversalName -> <<"passwd">>
      [] name = AbsoluteName -> <<"passwd">>
      [] OTHER -> <<"">>

\* C15: the X-Clip-Filename header is clip_<base>_<start>-<end>.mp4 with
\* <start> and <end> the parsed numbers; <base> is the base name of
\* inputFileName without its extension for a local file (clip_source.mp4 with
\* 10 and 20 gives clip_clip_source_10-20.mp4) and the request's uniqueId for
\* a downloaded source.
C15_ClipFilenameHeader ==
    res.clipHeader =>
        /\ res.clipName.start = C15_NumberText(req.startTime)
        /\ res.clipName.end = C15_NumberText(req.endTime)
        /\ res.clipName.base =
              IF HasFile THEN C15_BaseText(req.inputFileName) ELSE <<UniqueId>>
        /\ (req.inputFileName = "clip_source.mp4" /\ req.startTime = "10"
            /\ req.endTime = "20")
           => res.clipName = [base |-> <<"clip_source">>, start |-> "10", end |-> "20"]

\* Scenario A: clip_source.mp4, 10 to 20, served with status 200 and bytes.
C15_Witness ==
    /\ res.clipHeader
    /\ req.inputFileName = "clip_source.mp4"
    /\ req.startTime = "10"
    /\ req.endTime = "20"
    /\ res.status = 200
    /\ res.bytes > 0
    /\ Succeeded

\* A downloaded source named after the uniqueId, its start given as "10.0".
C15_DownloadNamed ==
    /\ res.clipHeader
    /\ ~HasFile
    /\ req.startTime = "10.0"
    /\ res.clipName.base = <<UniqueId>>

\* ------------------------------------------------------------ C16
\* The path lies in /data/host_downloads: its first two segments are the base
\* directory's.
InsideBase(p) ==
    /\ Len(p) >= 2
    /\ p[1] = <<"data">>
    /\ p[2] = <<"host_downloads">>

\* C16: whatever inputFileName is, the path whose existence is checked and
\* that ffmpeg is given as input lies inside /data/host_downloads.
C16_LocalPathInsideBase ==
    (LocalBranch /\ (io.access > 0 \/ io.ffmpeg > 0)) => InsideBase(localPath)

\* A name with a leading '/' stays inside the base directory.
C16_AbsoluteNameInside ==
    (req.inputFileName = AbsoluteName /\ io.access > 0) =>
        localPath = << <<"data">>, <<"host_downloads">>, <<"etc">>, <<"passwd">> >>

\* A file outside the base directory handed to ffmpeg.
C16_OutsideFileClipped ==
    /\ req.inputFileName = TraversalName
    /\ localPath = << <<"etc">>, <<"passwd">> >>
    /\ io.ffmpeg > 0

\* ------------------------------------------------------------ C17
\* The two paths probed after yt-dlp exits.
Candidates == {"tmpmp4", "tmp"}

\* C17: for a YouTube URL the download succeeds exactly when yt-dlp exits with
\* code 0 and one of input_<id>.tmp.mp4, input_<id>.tmp exists; ffmpeg's input
\* is then the .mp4 path if it exists, else the base path; a nonzero exit code,
\* a spawn error or neither file existing ends the request with 500 and a JSON
\* error, and ffmpeg is not spawned.
C17_YtDlpOutcome ==
    /\ [][(dl.kind = "ytdlp" /\ dl.st = "running" /\ dl'.st # "running") =>
            /\ dl'.st \in {"resolved", "rejected"}
            /\ (dl'.st = "resolved") <=> (dl'.code = 0 /\ files' \cap Candidates # {})
            /\ dl'.st = "resolved" =>
                  videoSourcePathForFFmpeg' = IF "tmpmp4" \in files' THEN "tmpmp4" ELSE "tmp"]_vars
    /\ []((dl.kind = "ytdlp" /\ dl.st # "resolved") => io.ffmpeg = 0)
    /\ []((dl.kind = "ytdlp" /\ dl.st = "rejected" /\ pc = "returned") =>
             /\ res.status = 500
             /\ res.body = "json_error"
             /\ res.sends = 1)
    /\ [][(dl.kind = "ytdlp" /\ io.ffmpeg' > io.ffmpeg) =>
             videoSourcePathForFFmpeg \in Candidates]_vars

\* yt-dlp wrote to the base path: the fallback is what ffmpeg reads.
C17_Witness ==
    /\ dl.kind = "ytdlp"
    /\ dl.st = "resolved"
    /\ dl.code = 0
    /\ videoSourcePathForFFmpeg = "tmp"
    /\ io.ffmpeg > 0

\* Exit code 0 with neither file: answered 500.
C17_NoFileFailed ==
    /\ dl.kind = "ytdlp"
    /\ dl.code = 0
    /\ dl.st = "rejected"
    /\ pc = "returned"
    /\ res.status = 500

\* ------------------------------------------------------------ C18
\* C18: for sourceType=supabase the signed URL is requested before any HTTP GET
\* or temp-file creation; when that request gives an error or no URL the
\* request ends with 500 and a JSON error, no GET is issued, no temp file is
\* created and ffmpeg is not spawned.
C18_SignedUrlFirst ==
    /\ [][(dl'.kind = "supabase" /\ (io.get' > io.get \/ io.create' > io.create)) =>
            /\ io.sign = 1
            /\ dl.st = "signing"
            /\ dl'.why = "none"]_vars
    /\ []((dl.kind = "supabase" /\ dl.why = "signedurl") =>
             /\ io.get = 0
             /\ io.create = 0
             /\ written = {}
             /\ files \cap TempPaths = {}
             /\ io.ffmpeg = 0
             /\ ff.st = "none"
             /\ (pc = "returned" =>
                   (res.status = 500 /\ res.body = "json_error" /\ res.sends = 1)))

\* The signed-URL request failed and the request has been answered 500.
C18_Witness ==
    /\ dl.kind = "supabase"
    /\ dl.why = "signedurl"
    /\ io.sign = 1
    /\ pc = "returned"
    /\ res.status = 500
    /\ hpc["catch"] = "done"

\* With a signed URL the GET follows it.
C18_GetAfterSignedUrl == dl.kind = "supabase" /\ io.sign = 1 /\ io.get = 1 /\ dl.st = "resolved"

\* ------------------------------------------------------------ C19
\* The download or the extraction of the request has failed.
DownloadFailed == dl.st \in {"rejected", "stalled"}
ExtractionFailed == SpawnFailed \/ ff.st = "spawnfail" \/ (ff.st = "closed" /\ ff.code # 0)

\* C19: one request starts at most one download attempt (one yt-dlp process
\* or one HTTP GET, after at most one signed-URL request) and at most one
\* ffmpeg process, and after a failed download or a failed extraction it starts
\* nothing more.
C19_NoRetry ==
    /\ [](io.ytdlp + io.get <= 1 /\ io.sign <= 1 /\ io.ffmpeg <= 1 /\ io.create <= 1)
    /\ [][(DownloadFailed \/ ExtractionFailed) =>
            /\ io.ytdlp' = io.ytdlp
            /\ io.get' = io.get
            /\ io.sign' = io.sign
            /\ io.create' = io.create
            /\ io.ffmpeg' = io.ffmpeg]_vars
    /\ [][DownloadFailed => dl' = dl]_vars

\* A download that worked, then an ffmpeg run that failed, all handled: one
\* GET and one ffmpeg process.
C19_Witness ==
    /\ io.get = 1
    /\ io.ffmpeg = 1
    /\ ff.st = "closed"
    /\ ff.code = 1
    /\ CloseDone
    /\ ~pendingUnlink

\* A failed download, answered, with its single attempt.
C19_FailedDownloadOnce ==
    /\ dl.st = "rejected"
    /\ dl.why = "network"
    /\ io.get = 1
    /\ pc = "returned"
    /\ res.status = 500

\* ------------------------------------------------------------ C20
\* C20: once headers or body bytes of the response have gone out, no later
\* event (failed ffmpeg run, spawn error, cleanup error) writes a status or a
\* second body: a request emits at most one status line and at most one
\* complete body, and once streaming has begun the response only receives
\* further stream bytes and its end.
C20_OneStatusLine ==
    /\ [](res.heads <= 1 /\ res.sends <= 1)
    /\ [][res.headersSent =>
            /\ res'.headersSent
            /\ res'.status = res.status
            /\ res'.heads = res.heads
            /\ res'.sends = res.sends
            /\ res'.contentType = res.contentType
            /\ res'.clipName = res.clipName]_vars
    /\ [][(res.bytes > 0 /\ res' # res) =>
            \/ res' = [res EXCEPT !.writableEnded = TRUE]
            \/ res' = [res EXCEPT !.bytes = @ + 1]]_vars
    /\ []((res.bytes > 0) => (res.body = "mp4" /\ res.status = 200 /\ res.sends = 0))
    /\ [][res.writableEnded => res' = res]_vars

\* ffmpeg failed after bytes went out, the 'close' listener has run: one status
\* line, the 200 of the stream, and no JSON body.
C20_Witness ==
    /\ res.bytes > 0
    /\ ff.st = "closed"
    /\ ff.code = 1
    /\ CloseDone
    /\ res.heads = 1
    /\ res.sends = 0
    /\ res.status = 200
    /\ res.writableEnded

\* A spawn error answered 500 by the 'error' listener, then 'close' handled
\* too: still one status line.
C20_CloseAfterErrorSilent ==
    /\ ErrorDone
    /\ CloseDone
    /\ res.status = 500
    /\ res.heads = 1
    /\ res.sends = 1

\* ------------------------------------------------------------ concurrent requests
\* Several /api/clip-video requests in flight at once, followed as far as the
\* files in tempDir are concerned: each is valid, its direct download succeeds
\* and its ffmpeg run reads the input. A request is either a download (no
\* inputFileName) or names a file through inputFileName.
ConcInputFileNames == {Absent, "clip_source.mp4"} \cup {TempFileName(id) : id \in Ids}

\* The file at path p in tempDir, if any, as the set of its records.
FileAt(p) == {f \in tempDir : f.path = p}

\* Request r touches path p: every file there that another request created is
\* recorded with what was done to it.
ForeignAccess(r, op, p) ==
    {[by |-> r, op |-> op, of |-> f.creator] : f \in {g \in FileAt(p) : g.creator # r}}

\* The request arrives with its query parameters.
ConcReceive(r) ==
    /\ inflight[r].pc = "idle"
    /\ \E name \in ConcInputFileNames :
          inflight' = [inflight EXCEPT ![r].pc = "source", ![r].inputFileName = name]
    /\ UNCHANGED <<clipVars, edgeVars, appVars, tempDir, foreign>>

\* uniqueId is drawn; then either the local path is joined, or the temp paths
\* are built and fs.createWriteStream opens the download target, creating the
\* file or truncating the one that is there.
ConcDetermineSource(r) ==
    /\ inflight[r].pc = "source"
    /\ \E id \in Ids :
          IF Truthy(inflight[r].inputFileName)
          THEN /\ inflight' = [inflight EXCEPT
                     ![r].pc = "access",
                     ![r].uniqueId = id,
                     ![r].videoSourcePathForFFmpeg =
                         PathJoin(HostDownloadsPath, inflight[r].inputFileName)]
               /\ UNCHANGED <<tempDir, foreign>>
          ELSE /\ inflight' = [inflight EXCEPT
                     ![r].pc = "download",
                     ![r].uniqueId = id,
                     ![r].videoSourcePathForFFmpeg = VideoSourcePathOf(id),
                     ![r].cleanupDownloadFiles = TRUE]
               /\ foreign' = foreign \cup ForeignAccess(r, "overwrite", VideoSourcePathOf(id))
               /\ tempDir' = IF FileAt(VideoSourcePathOf(id)) = {}
                             THEN tempDir \cup {[path |-> VideoSourcePathOf(id), creator |-> r]}
                             ELSE tempDir
    /\ UNCHANGED <<clipVars, edgeVars, appVars>>

\* await fsp.access(videoSourcePathForFFmpeg): a file under the base directory
\* is taken to be there, one in tempDir is there while it exists.
ConcLocalAccess(r) ==
    /\ inflight[r].pc = "access"
    /\ LET p == inflight[r].videoSourcePathForFFmpeg
           there == IF Len(p) >= 2 /\ SubSeq(p, 1, 2) = HostDownloadsPath
                    THEN TRUE
                    ELSE FileAt(p) # {}
       IN inflight' = [inflight EXCEPT ![r].pc = IF there THEN "ffmpeg" ELSE "done"]
    /\ UNCHANGED <<clipVars, edgeVars, appVars, tempDir, foreign>>

\* fileStream 'finish': the promise resolves and ffmpeg is spawned.
ConcDownloadFinish(r) ==
    /\ inflight[r].pc = "download"
    /\ inflight' = [inflight EXCEPT ![r].pc = "ffmpeg"]
    /\ UNCHANGED <<clipVars, edgeVars, appVars, tempDir, foreign>>

\* ffmpeg opens its input and runs to its 'close'.
ConcFfmpegRead(r) ==
    /\ inflight[r].pc = "ffmpeg"
    /\ foreign' = foreign \cup ForeignAccess(r, "read", inflight[r].videoSourcePathForFFmpeg)
    /\ inflight' = [inflight EXCEPT
          ![r].pc = IF inflight[r].cleanupDownloadFiles THEN "cleanup" ELSE "done"]
    /\ UNCHANGED <<clipVars, edgeVars, appVars, tempDir>>

\* The 'close' listener's loop: stat and unlink of the ffmpeg input, then of the
\* base path, which a direct download never creates.
ConcCleanup(r) ==
    /\ inflight[r].pc = "cleanup"
    /\ foreign' = foreign \cup ForeignAccess(r, "delete", inflight[r].videoSourcePathForFFmpeg)
    /\ tempDir' = tempDir \ FileAt(inflight[r].videoSourcePathForFFmpeg)
    /\ inflight' = [inflight EXCEPT ![r].pc = "done"]
    /\ UNCHANGED <<clipVars, edgeVars, appVars>>

NextConc ==
    \E r \in Reqs :
        \/ ConcReceive(r)
        \/ ConcDetermineSource(r)
        \/ ConcLocalAccess(r)
        \/ ConcDownloadFinish(r)
        \/ ConcFfmpegRead(r)
        \/ ConcCleanup(r)

InitConc == ClipInit /\ supabase /\ files = {} /\ ConcIdle /\ EdgeIdle /\ AppIdle

SpecConc == InitConc /\ [][NextConc]_vars

\* ------------------------------------------------------------ C12
\* The requests that hold temp paths: downloads between the draw of their
\* uniqueId and the end of their cleanup.
HoldsTempPaths(r) ==
    inflight[r].cleanupDownloadFiles /\ inflight[r].pc \in {"download", "ffmpeg", "cleanup"}

\* C12, first half: two distinct requests in flight never have the same temp
\* file path.
C12_DistinctTempPaths ==
    \A a, b \in Reqs :
        (a # b /\ HoldsTempPaths(a) /\ HoldsTempPaths(b)) =>
            inflight[a].videoSourcePathForFFmpeg # inflight[b].videoSourcePathForFFmpeg

\* C12: no request reads, overwrites or deletes a temp file that another
\* request created; stated here for requests whose uniqueIds differ, where the
\* temp paths are distinct.
C12_NoForeignTempFile ==
    (\A a, b \in Reqs :
        (a # b /\ inflight[a].uniqueId # NoId /\ inflight[b].uniqueId # NoId) =>
            inflight[a].uniqueId # inflight[b].uniqueId)
    => foreign = {}

\* The same without the restriction: equal draws count too.
C12_NoForeignTempFileAtAll == foreign = {}

\* Two downloads with different uniqueIds, both cleaned up, neither touched
\* the other's file.
C12_IndependentDownloads ==
    /\ \A r \in Reqs : inflight[r].pc = "done" /\ inflight[r].cleanupDownloadFiles
    /\ inflight[1].uniqueId # inflight[2].uniqueId
    /\ foreign = {}
    /\ tempDir = {}

\* ------------------------------------------------------------ C21
\* The response a listener's tail must leave, given the response it found: the
\* 500 JSON answer when nothing was sent and the listener reports a failure,
\* the response as it was otherwise, ended by the 'close' listener.
C21_TailLeaves(h, before, after) ==
    LET fails == h # "close" \/ ff.code # 0
    IN /\ (fails /\ ~before.headersSent) =>
             (after.status = 500 /\ after.body = "json_error" /\ after.sends = before.sends + 1
              /\ after.writableEnded)
       /\ (before.headersSent \/ ~fails) =>
             (after.status = before.status /\ after.body = before.body
              /\ after.sends = before.sends /\ after.bytes = before.bytes)
       /\ h = "close" => after.writableEnded

\* C21: the cleanup never fails the handler and never changes the response:
\* each step of a delete loop, whether its file is there, was never created or
\* was removed by the download step or by another listener's loop, leaves the
\* response alone and goes on to the next file or to the listener's tail, and
\* the tail answers as it would have without the cleanup; no loop is left
\* unfinished.
C21_CleanupNeverFails ==
    /\ [](\A h \in Handlers : hpc[h] \in {"idle", "stat", "unlink", "done"})
    /\ [][\A h \in Handlers :
            (hpc[h] \in {"stat", "unlink"} /\ <<hpc[h], hidx[h]>> # <<hpc'[h], hidx'[h]>>) =>
                IF hpc'[h] = "done"
                THEN C21_TailLeaves(h, res, res')
                ELSE res' = res /\ hpc'[h] \in {"stat", "unlink"}]_vars
    /\ [](Quiescent => \A h \in Handlers : hpc[h] \in {"idle", "done"})

\* Two unlinks of the ffmpeg input were issued and both have settled, so one
\* of them found the file gone; every listener that started has finished and
\* the response is ended.
C21_Witness ==
    /\ unlinks["tmpmp4"] >= 2
    /\ ~pendingUnlink
    /\ \A h \in Handlers : hpc[h] \in {"idle", "done"}
    /\ "tmpmp4" \notin files
    /\ res.writableEnded

\* The loop of the catch block over files that were never created.
C21_NeverCreated ==
    /\ hpc["catch"] = "done"
    /\ written = {}
    /\ unlinks = [p \in Paths |-> 0]
    /\ res.status = 500

\* ------------------------------------------------------------ client disconnect
\* The client closes the connection before the response has ended. The handler
\* registers no listener for it.
ClientDisconnect ==
    /\ pc \notin {"idle", "validate"}
    /\ client = "connected"
    /\ ~res.writableEnded
    /\ client' = "gone"
    /\ UNCHANGED <<elsewhere, dv, reqVars, files, pc, srcVars, dl, pendingUnlink, ff, res,
                   loopVars, io, unlinks, written>>

\* stdout.pipe(res) is the only reader of ffmpeg's stdout. When res closes the
\* pipe is removed and stdout is paused: ffmpeg blocks once the pipe is full,
\* stdout never ends and 'close' is not emitted. (A run whose remaining output
\* is still consumed goes on through the other ffmpeg steps.)
FfmpegStdoutUnread ==
    /\ client = "gone"
    /\ ff.st = "running"
    /\ ff' = [ff EXCEPT !.st = "unread"]
    /\ UNCHANGED <<otherVars, reqVars, files, pc, srcVars, dl, pendingUnlink, res,
                   loopVars, io, unlinks, written>>

NextDisconnect ==
    \/ Next
    \/ ClientDisconnect
    \/ FfmpegStdoutUnread

SpecDisconnect == Init /\ [][NextDisconnect]_vars

\* ------------------------------------------------------------ C22
\* Nothing more can happen for a request whose client may disconnect.
QuiescentDisconnect == ~ENABLED NextDisconnect

\* C22: after the client disconnects, the download and ffmpeg run to their
\* own completion and the temp-file cleanup runs after ffmpeg closes; read on
\* finite runs, once nothing more can happen for a request that has spawned
\* ffmpeg, ffmpeg has closed and the 'close' listener has finished.
C22_CleanupAfterDisconnect ==
    (client = "gone" /\ io.ffmpeg > 0 /\ QuiescentDisconnect) =>
        (ff.st = "closed" /\ CloseDone)

\* The same for what is left on disk: no temp input remains.
C22_NoTempFileAfterDisconnect ==
    (client = "gone" /\ io.ffmpeg > 0 /\ QuiescentDisconnect) =>
        files \cap SourceFiles = {}

\* The part that holds: the handler has no step that stops a subprocess or a
\* download, so a disconnect during the download leaves it running to its
\* resolution.
C22_DownloadGoesOn ==
    client = "gone" /\ dl.st = "resolved" /\ io.ffmpeg > 0 /\ ff.st = "closed" /\ CloseDone

\* ------------------------------------------------------------ /api/download-video
\* The route with its test of the two environment variables left out.
DownloadVideoNoCheck ==
    /\ dv.st = "idle"
    /\ dv' = [st |-> "handler", status |-> 0, handlerCalled |-> TRUE]
    /\ UNCHANGED <<elsewhere, client, reqVars, files, pc, srcVars, dl, pendingUnlink, ff,
                   res, loopVars, io, unlinks, written>>

\* GET /api/download-video: 500 when VITE_SUPABASE_URL or VITE_SUPABASE_ANON_KEY
\* is missing (the condition under which no client was created), otherwise the
\* imported handler is called with (req, res).
DownloadVideo ==
    /\ dv.st = "idle"
    /\ dv' = IF ~supabase
             THEN [st |-> "answered", status |-> 500, handlerCalled |-> FALSE]
             ELSE [st |-> "handler", status |-> 0, handlerCalled |-> TRUE]
    /\ UNCHANGED <<elsewhere, client, reqVars, files, pc, srcVars, dl, pendingUnlink, ff,
                   res, loopVars, io, unlinks, written>>

NextRoutes ==
    \/ Next
    \/ DownloadVideo

SpecRoutes == Init /\ [][NextRoutes]_vars

\* ------------------------------------------------------------ C28
\* A 500 answer of the clip-video handler that a failed download or a failed
\* ffmpeg run accounts for.
C28_OwnFailure ==
    \/ dl.st = "rejected"
    \/ ff.st \in {"errored", "closed"}

\* C28: with no storage client, a clip-video request with sourceType=supabase
\* (and no inputFileName) is answered 500 with a JSON error, with no temp file,
\* no signed-URL request, no download and no ffmpeg; /api/download-video is
\* answered 500 and the download handler is not called; a request served from
\* inputFileName or from an external URL never asks for a signed URL, and a 500
\* it gets comes from its own download or ffmpeg run.
C28_MissingClient ==
    /\ []((~supabase /\ ~HasFile /\ req.sourceType = "supabase") =>
             /\ NoDownloadStarted
             /\ written = {}
             /\ io.ffmpeg = 0
             /\ dl.st = "idle"
             /\ pc \in {"idle", "validate", "source", "threw", "returned"}
             /\ (pc = "returned" =>
                   /\ res.status \in {400, 500}
                   /\ res.body = "json_error"
                   /\ res.sends = 1
                   /\ (cleanupDownloadFiles => res.status = 500)))
    /\ []((~supabase /\ dv.st # "idle") =>
             (dv.status = 500 /\ ~dv.handlerCalled /\ dv.st = "answered"))
    /\ []((~supabase /\ Handled /\ (HasFile \/ req.sourceType = "external_url")) =>
             /\ io.sign = 0
             /\ dl.kind # "supabase"
             /\ (res.status = 500 => C28_OwnFailure))

\* No client: the supabase request and the download-video request have both
\* been answered 500.
C28_Witness ==
    /\ ~supabase
    /\ req.sourceType = "supabase"
    /\ ~HasFile
    /\ cleanupDownloadFiles
    /\ pc = "returned"
    /\ res.status = 500
    /\ dv.status = 500

\* No client, and a local file and an external URL are both served.
C28_LocalServed == ~supabase /\ HasFile /\ Succeeded /\ CloseDone /\ res.bytes > 0
C28_ExternalServed ==
    ~supabase /\ ~HasFile /\ req.sourceType = "external_url" /\ Succeeded /\ CloseDone

\* ---------------------------------------------------------------------------
\* The process-video edge function: one request through the handler, one
\* step per synchronous stretch of its code.
EdgeJsonError(e, status) ==
    [status |-> status, allowOrigin |-> e.responseCorsHeaders, contentType |-> JsonType,
     body |-> "error", pathOrUrl |-> <<>>, sourceType |-> None]

\* serve() hands a request to the handler, which computes the CORS headers.
EdgeReceive ==
    /\ edge.pc = "idle"
    /\ \E method \in Methods, origin \in RequestOrigins, env \in BOOLEAN,
          contentType \in ContentTypes, requestBody \in RequestBodies :
            edge' = [edge EXCEPT
                        !.pc = "cors",
                        !.req = [method |-> method, origin |-> origin, env |-> env,
                                 contentType |-> contentType, requestBody |-> requestBody],
                        !.responseCorsHeaders = getDynamicCorsHeaders(origin)]
    /\ UNCHANGED <<clipVars, concVars, appVars>>

\* The preflight: 204 with the CORS headers, or 403 with the origin header deleted.
EdgeOptions ==
    /\ edge.pc = "cors"
    /\ edge.req.method = "OPTIONS"
    /\ edge' = [edge EXCEPT
                   !.pc = "done",
                   !.response =
                       IF edge.responseCorsHeaders # None
                       THEN [NoEdgeResponse EXCEPT
                                !.status = 204, !.allowOrigin = edge.responseCorsHeaders]
                       ELSE [NoEdgeResponse EXCEPT !.status = 403]]
    /\ UNCHANGED <<clipVars, concVars, appVars>>

\* Any other method from an origin that is not allowed: 403 with a JSON body
\* and only a Content-Type header.
EdgeOriginCheck ==
    /\ edge.pc = "cors"
    /\ edge.req.method # "OPTIONS"
    /\ edge' = IF edge.responseCorsHeaders = None
               THEN [edge EXCEPT
                        !.pc = "done",
                        !.response = [NoEdgeResponse EXCEPT
                                         !.status = 403, !.contentType = JsonType,
                                         !.body = "error"]]
               ELSE [edge EXCEPT !.pc = "env"]
    /\ UNCHANGED <<clipVars, concVars, appVars>>

\* The environment is read and checked; then the method is dispatched: POST
\* goes on, any other method is answered 405.
EdgeEnv ==
    /\ edge.pc = "env"
    /\ edge' = IF ~edge.req.env
               THEN [edge EXCEPT !.pc = "done", !.envRead = TRUE,
                                 !.response = EdgeJsonError(edge, 500)]
               ELSE IF edge.req.method = "POST"
               THEN [edge EXCEPT !.pc = "post", !.envRead = TRUE]
               ELSE [edge EXCEPT !.pc = "done", !.envRead = TRUE,
                                 !.response = EdgeJsonError(edge, 405)]
    /\ UNCHANGED <<clipVars, concVars, appVars>>

\* The Content-Type check, then the await of req.json().
EdgeContentType ==
    /\ edge.pc = "post"
    /\ edge' = IF ~Includes(edge.req.contentType, <<JsonType>>)
               THEN [edge EXCEPT !.pc = "done", !.response = EdgeJsonError(edge, 400)]
               ELSE [edge EXCEPT !.pc = "body"]
    /\ UNCHANGED <<clipVars, concVars, appVars>>

\* The body has been read: req.json() throws on a body that is not JSON and
\* the destructuring throws on null, both into the outer catch; then the
\* source is determined, the public URL asked of the storage client, and the
\* request to the AI service sent unless a signed URL is needed first.
EdgeBody ==
    /\ edge.pc = "body"
    /\ LET requestBody == edge.req.requestBody
           uploadedVideoPath == requestBody.uploadedVideoPath
           videoUrl == requestBody.videoUrl
       IN IF requestBody.kind \in {"malformed", "null"}
          THEN edge' = [edge EXCEPT !.pc = "done", !.response = EdgeJsonError(edge, 500)]
          ELSE IF JsTruthy(uploadedVideoPath) /\ IsString(uploadedVideoPath)
          THEN \E publicUrlIncludesPath \in BOOLEAN :
                  edge' = [edge EXCEPT
                              !.originalPathOrUrl = uploadedVideoPath.v,
                              !.processedVideoSourceType = "supabase",
                              !.supabaseCalls = @ + 1,
                              !.pc = IF publicUrlIncludesPath THEN "gemini" ELSE "signing",
                              !.geminiCalls = IF publicUrlIncludesPath THEN @ + 1 ELSE @]
          ELSE IF JsTruthy(videoUrl) /\ IsString(videoUrl)
          THEN IF ~ValidUrl(videoUrl.v)
               THEN edge' = [edge EXCEPT !.pc = "done",
                                         !.response = EdgeJsonError(edge, 400)]
               ELSE edge' = [edge EXCEPT
                                !.originalPathOrUrl = videoUrl.v,
                                !.processedVideoSourceType = "external_url",
                                !.pc = "gemini",
                                !.geminiCalls = @ + 1]
          ELSE edge' = [edge EXCEPT !.pc = "done", !.response = EdgeJsonError(edge, 400)]
    /\ UNCHANGED <<clipVars, concVars, appVars>>

\* createSignedUrl answers: with a URL the request to the AI service is sent,
\* with an error or without a URL the handler throws into the outer catch.
EdgeSignedUrl ==
    /\ edge.pc = "signing"
    /\ \E signed \in BOOLEAN :
          edge' = IF signed
                  THEN [edge EXCEPT !.supabaseCalls = @ + 1, !.pc = "gemini",
                                    !.geminiCalls = @ + 1]
                  ELSE [edge EXCEPT !.supabaseCalls = @ + 1, !.pc = "done",
                                    !.response = EdgeJsonError(edge, 500)]
    /\ UNCHANGED <<clipVars, concVars, appVars>>

\* What the AI service may answer: a status that is not OK, a body that is
\* not JSON, a JSON body without the text part, one whose text part is a
\* number, and one whose text part is a string.
GeminiResults == {"not_ok", "not_json", "no_text", "number_text", "text"}
\* The processing of the answer without the check of the parsed value's shape.
EdgeGeminiAnyJson ==
    /\ edge.pc = "gemini"
    /\ \E geminiResult \in GeminiResults :
       \E highlightsText \in (IF geminiResult = "text" THEN Texts ELSE {<<>>}) :
            LET initialClips == JsonParse(CleanText(highlightsText))
                ok == /\ geminiResult = "text"
                      /\ highlightsText # <<>>
                      /\ initialClips # "error"
            IN edge' = [edge EXCEPT
                           !.pc = "done",
                           !.geminiResult = geminiResult,
                           !.highlightsText = highlightsText,
                           !.response =
                               IF ok
                               THEN [status |-> 200,
                                     allowOrigin |-> edge.responseCorsHeaders,
                                     contentType |-> JsonType,
                                     body |-> "initialClips",
                                     pathOrUrl |-> edge.originalPathOrUrl,
                                     sourceType |-> edge.processedVideoSourceType]
                               ELSE EdgeJsonError(edge, 500)]
    /\ UNCHANGED <<clipVars, concVars, appVars>>
\* The answer of the AI service is processed: every throw ends in the outer
\* catch (500); 200 needs a text that, cleaned, parses to an array.
EdgeGemini ==
    /\ edge.pc = "gemini"
    /\ \E geminiResult \in GeminiResults :
       \E highlightsText \in (IF geminiResult = "text" THEN Texts ELSE {<<>>}) :
            LET initialClips == JsonParse(CleanText(highlightsText))
                ok == /\ geminiResult = "text"
                      /\ highlightsText # <<>>
                      /\ initialClips = "array"
            IN edge' = [edge EXCEPT
                           !.pc = "done",
                           !.geminiResult = geminiResult,
                           !.highlightsText = highlightsText,
                           !.response =
                               IF ok
                               THEN [status |-> 200,
                                     allowOrigin |-> edge.responseCorsHeaders,
                                     contentType |-> JsonType,
                                     body |-> "initialClips",
                                     pathOrUrl |-> edge.originalPathOrUrl,
                                     sourceType |-> edge.processedVideoSourceType]
                               ELSE EdgeJsonError(edge, 500)]
    /\ UNCHANGED <<clipVars, concVars, appVars>>

NextEdge ==
    \/ EdgeReceive
    \/ EdgeOptions
    \/ EdgeOriginCheck
    \/ EdgeEnv
    \/ EdgeContentType
    \/ EdgeBody
    \/ EdgeSignedUrl
    \/ EdgeGemini

\* The edge function runs apart from the local API server, which stays idle.
InitEdge == ClipInit /\ supabase /\ files = {} /\ ConcIdle /\ EdgeIdle /\ AppIdle
SpecEdge == InitEdge /\ [][NextEdge]_vars

\* C23: no response of the edge function carries an Access-Control-Allow-Origin
\* header naming an origin outside allowedOrigins. A preflight from an allowed
\* origin is answered 204 with the header equal to that origin; a preflight
\* from any other origin, or from none, is answered 403 without the header;
\* any other request from an origin that is not allowed is answered 403
\* without the header, the environment not read and no call made to the
\* storage service or to the AI service.
EdgeAnswered == edge.pc = "done"
C23_AllowOriginOnlyAllowed ==
    /\ edge.response.allowOrigin # None =>
          /\ edge.response.allowOrigin \in
                {"https://clipping-generation-app-1far-cp7r9udye-zahtech123s-projects.vercel.app",
                 "https://clipping-generation-app-1far.vercel.app",
                 "http://localhost:5173"}
          /\ edge.response.allowOrigin = edge.req.origin
    /\ (EdgeAnswered /\ edge.req.method = "OPTIONS") =>
          IF edge.req.origin \in allowedOrigins
          THEN edge.response.status = 204 /\ edge.response.allowOrigin = edge.req.origin
          ELSE edge.response.status = 403 /\ edge.response.allowOrigin = None
    /\ (edge.pc # "idle" /\ edge.req.method # "OPTIONS"
            /\ edge.req.origin \notin allowedOrigins) =>
          /\ ~edge.envRead
          /\ edge.supabaseCalls = 0
          /\ edge.geminiCalls = 0
          /\ edge.pc \in {"cors", "done"}
          /\ EdgeAnswered =>
                edge.response.status = 403 /\ edge.response.allowOrigin = None
\* A preflight from an allowed origin has been answered.
C23_Witness ==
    /\ EdgeAnswered
    /\ edge.req.method = "OPTIONS"
    /\ edge.req.origin = LOCALHOST_URL
    /\ edge.response.status = 204
    /\ edge.response.allowOrigin = LOCALHOST_URL
\* A preflight from a near miss of an allowed origin has been refused, and so
\* has a POST from a foreign origin; a POST from an allowed origin has read
\* the environment and called both services.
C23_PreflightRefused ==
    /\ EdgeAnswered
    /\ edge.req.method = "OPTIONS"
    /\ edge.req.origin = "http://localhost:5173/"
    /\ edge.response.status = 403
C23_PostRefused ==
    /\ EdgeAnswered
    /\ edge.req.method = "POST"
    /\ edge.req.origin = "https://evil.example"
    /\ edge.req.env
    /\ edge.response.status = 403
C23_PostServed ==
    /\ EdgeAnswered
    /\ edge.req.origin \in allowedOrigins
    /\ edge.envRead
    /\ edge.supabaseCalls = 2
    /\ edge.geminiCalls = 1
    /\ edge.response.allowOrigin = edge.req.origin


\* C24: the edge function answers 200 with initialClips only when the text of
\* the AI service, trimmed and stripped of one leading fence (with or without
\* the word json) and of one trailing fence, parses as JSON to an array. When
\* the AI service has answered with no text part, with a text that does not
\* parse or with a value that is not an array, the answer is a 500 JSON error.
\* The texts that are an array between optional fences and white space:
C24_WsRun(n) == [i \in 1..n |-> Ws]
C24_ArrayTexts ==
    {C24_WsRun(a) \o open \o C24_WsRun(b) \o <<JsonArray>> \o C24_WsRun(c) \o close \o C24_WsRun(d) :
        a \in 0..MaxTextLen, b \in 0..MaxTextLen, c \in 0..MaxTextLen, d \in 0..MaxTextLen,
        open \in {<<>>, <<Fence>>, <<Fence, JsonWord>>}, close \in {<<>>, <<Fence>>}}
C24_TextIsArray == edge.geminiResult = "text" /\ edge.highlightsText \in C24_ArrayTexts
C24_ClipsOnlyFromArrayText ==
    /\ (edge.response.status = 200 \/ edge.response.body = "initialClips") =>
          /\ edge.response.status = 200
          /\ edge.response.body = "initialClips"
          /\ C24_TextIsArray
    /\ (EdgeAnswered /\ edge.geminiResult # None /\ ~C24_TextIsArray) =>
          /\ edge.response.status = 500
          /\ edge.response.body = "error"
          /\ edge.response.contentType = JsonType
\* A fenced array with white space around it has been answered 200.
C24_Witness ==
    /\ EdgeAnswered
    /\ edge.highlightsText = <<Fence, JsonWord, Ws, JsonArray>>
    /\ edge.response.status = 200
    /\ edge.response.body = "initialClips"
\* An array closed by a fence, an object, a doubly fenced array and a missing
\* text part have been answered.
C24_TrailingFence ==
    EdgeAnswered /\ edge.highlightsText = <<JsonArray, Ws, Fence, Ws>>
        /\ edge.response.status = 200
C24_ObjectRefused ==
    EdgeAnswered /\ edge.highlightsText = <<Fence, JsonObject, Fence>>
        /\ edge.response.status = 500
C24_DoubleFenceRefused ==
    EdgeAnswered /\ edge.highlightsText = <<Fence, Fence, JsonArray>>
        /\ edge.response.status = 500
C24_NoTextRefused ==
    EdgeAnswered /\ edge.geminiResult = "no_text" /\ edge.response.status = 500


\* C25: in the POST handler a body with neither uploadedVideoPath nor
\* videoUrl, a body whose videoUrl is not a valid URL (and that has no
\* uploadedVideoPath to take precedence), and a request whose Content-Type is
\* not the JSON one are answered 400, and no request is sent to the AI service.
C25_Post == EdgeAnswered /\ edge.req.method = "POST" /\ edge.envRead /\ edge.req.env
C25_JsonContentType ==
    edge.req.contentType \in {<<JsonType>>, <<JsonType, "; charset=utf-8">>}
C25_HasPath ==
    /\ edge.req.requestBody.kind = "object"
    /\ edge.req.requestBody.uploadedVideoPath.t = "string"
    /\ edge.req.requestBody.uploadedVideoPath.v # <<>>
C25_HasUrl ==
    /\ edge.req.requestBody.kind = "object"
    /\ edge.req.requestBody.videoUrl.t = "string"
    /\ edge.req.requestBody.videoUrl.v # <<>>
C25_JsonBody == edge.req.requestBody.kind \in {"object", "null"}
C25_BadRequestAnswered400 ==
    (C25_Post /\ (\/ ~C25_JsonContentType
                  \/ C25_JsonBody /\ ~C25_HasPath /\ ~C25_HasUrl
                  \/ C25_JsonBody /\ ~C25_HasPath /\ C25_HasUrl
                        /\ edge.req.requestBody.videoUrl.v = <<"not a url">>)) =>
        /\ edge.response.status = 400
        /\ edge.geminiCalls = 0
\* What holds of the claim: for a body that is a JSON object sent with a JSON
\* Content-Type, the path takes precedence over the URL, a valid URL is used
\* otherwise, the rest is answered 400 with no request to the AI service, and
\* a 200 echoes the chosen source and its type.
C25_ObjectBodies ==
    (C25_Post /\ C25_JsonContentType /\ edge.req.requestBody.kind = "object") =>
        /\ C25_HasPath =>
              /\ edge.processedVideoSourceType = "supabase"
              /\ edge.originalPathOrUrl = <<"user/video.mp4">>
        /\ (~C25_HasPath /\ C25_HasUrl
                /\ edge.req.requestBody.videoUrl.v = <<"https:", "//example.com/v.mov">>) =>
              /\ edge.processedVideoSourceType = "external_url"
              /\ edge.originalPathOrUrl = <<"https:", "//example.com/v.mov">>
              /\ edge.supabaseCalls = 0
        /\ (~C25_HasPath /\ ~(C25_HasUrl
                /\ edge.req.requestBody.videoUrl.v = <<"https:", "//example.com/v.mov">>)) =>
              /\ edge.response.status = 400
              /\ edge.geminiCalls = 0
        /\ edge.response.status = 200 =>
              /\ edge.response.pathOrUrl = edge.originalPathOrUrl
              /\ edge.response.sourceType = edge.processedVideoSourceType
              /\ edge.response.sourceType \in {"supabase", "external_url"}
              /\ edge.geminiCalls = 1
\* The JSON body null has been answered 500, and a request whose Content-Type
\* only contains the JSON one has gone on to the AI service.
C25_NullBody ==
    /\ C25_Post
    /\ C25_JsonContentType
    /\ edge.req.requestBody = JsonNull
    /\ edge.response.status = 500
    /\ edge.geminiCalls = 0
C25_ContainedType ==
    /\ C25_Post
    /\ edge.req.contentType = <<"text/plain; note=", JsonType>>
    /\ edge.response.status = 200
\* Both fields given as strings: the path has been chosen and echoed.
C25_BothGiven ==
    /\ C25_Post
    /\ C25_HasPath
    /\ C25_HasUrl
    /\ edge.response.status = 200
    /\ edge.response.sourceType = "supabase"


\* ---------------------------------------------------------------------------
\* The frontend: the health check made on mount, handleSubmit,
\* handleDownloadOriginal and handleDownloadClip, one step per synchronous
\* stretch of their code. A handler reads the state through the values of the
\* render that created it (app.render) and writes the state itself.

\* React renders again: handlers and buttons now see the current state.
Render ==
    /\ app.render # View(app)
    /\ app' = [app EXCEPT !.render = View(app)]
    /\ UNCHANGED <<clipVars, concVars, edgeVars>>

\* The effect run on mount: with the Supabase configuration present the
\* health check starts, without it the status is an error at once.
Mount ==
    /\ app.health = "idle"
    /\ \E configured \in BOOLEAN :
          app' = IF configured
                 THEN [app EXCEPT !.health = "fetching", !.apiStatus = "pending"]
                 ELSE [app EXCEPT !.health = "done", !.apiStatus = "error"]
    /\ UNCHANGED <<clipVars, concVars, edgeVars>>

\* What may come back from GET /api/hello: a rejected fetch, or an answer with
\* a status that is OK or not and a body that is not JSON, is null, or is an
\* object whose message is absent, empty, the server's, or close to it.
HelloResponses ==
    {[NoHello EXCEPT !.kind = "rejected"]} \cup
    {[kind |-> "answered", ok |-> ok, json |-> json, message |-> NoMessage] :
        ok \in BOOLEAN, json \in {"invalid", "null"}} \cup
    {[kind |-> "answered", ok |-> ok, json |-> "object", message |-> message] :
        ok \in BOOLEAN,
        message \in {NoMessage, "", HelloMessage, "Hello from local API", "hello from local api!"}}
\* The status set by checkApiHealth without the comparison of the message.
ApiStatusOfAnyObject(hello) ==
    IF hello.kind = "answered" /\ hello.ok /\ hello.json = "object" THEN "ok" ELSE "error"
\* The status set by checkApiHealth: response.json() throws on a body that is
\* not JSON and data.message throws on null, both into the catch.
ApiStatusOf(hello) ==
    IF /\ hello.kind = "answered"
       /\ hello.ok
       /\ hello.json = "object"
       /\ hello.message # NoMessage
       /\ hello.message # ""
       /\ hello.message = ExpectedMessage
    THEN "ok"
    ELSE "error"
HelloAnswer ==
    /\ app.health = "fetching"
    /\ \E hello \in HelloResponses :
          app' = [app EXCEPT !.health = "done", !.hello = hello,
                             !.apiStatus = ApiStatusOf(hello)]
    /\ UNCHANGED <<clipVars, concVars, edgeVars>>

\* handleDownloadOriginal: nothing is opened unless the render's apiStatus is
\* 'ok' and there are processed video details.
DownloadOriginal ==
    /\ app.opens < MaxOpens
    /\ app' = IF app.render.apiStatus # "ok" \/ ~app.render.processedVideoDetails
              THEN [app EXCEPT !.original = "refused"]
              ELSE [app EXCEPT !.original = "opened", !.opens = @ + 1]
    /\ UNCHANGED <<clipVars, concVars, edgeVars>>

\* What the user has entered when handleSubmit is called.
SubmitInputs == {"url", "blank_url", "no_url", "file", "no_file"}
\* handleSubmit up to its first await or return: refused unless the render's
\* apiStatus is 'ok'; then processing is set and the analysis state reset; a
\* URL goes to the edge function, a file is uploaded first, and with neither
\* the handler returns through the finally block.
SubmitStart ==
    /\ app.submit \in {"idle", "refused"}
    /\ \E input \in SubmitInputs :
          app' = IF app.render.apiStatus # "ok"
                 THEN [app EXCEPT !.submit = "refused"]
                 ELSE IF input = "url"
                 THEN [app EXCEPT !.processing = TRUE, !.processedVideoDetails = FALSE,
                                  !.clips = [c \in ClipIds |-> "absent"],
                                  !.submit = "invoking", !.invokes = @ + 1]
                 ELSE IF input = "file"
                 THEN [app EXCEPT !.processing = TRUE, !.processedVideoDetails = FALSE,
                                  !.clips = [c \in ClipIds |-> "absent"],
                                  !.submit = "uploading", !.uploads = @ + 1]
                 ELSE [app EXCEPT !.processing = FALSE, !.processedVideoDetails = FALSE,
                                  !.clips = [c \in ClipIds |-> "absent"],
                                  !.submit = "done"]
    /\ UNCHANGED <<clipVars, concVars, edgeVars>>

\* The catch and finally blocks of handleSubmit: pending clips fail, processing ends.
SubmitFailed(a) ==
    [a EXCEPT !.submit = "done", !.processing = FALSE,
              !.clips = [c \in ClipIds |-> IF a.clips[c] = "pending" THEN "failed"
                                           ELSE a.clips[c]]]
\* The upload settles: with a path the edge function is invoked, otherwise
\* the handler throws.
UploadAnswer ==
    /\ app.submit = "uploading"
    /\ \E outcome \in {"path", "error", "no_path", "rejected"} :
          app' = IF outcome = "path"
                 THEN [app EXCEPT !.submit = "invoking", !.invokes = @ + 1]
                 ELSE SubmitFailed(app)
    /\ UNCHANGED <<clipVars, concVars, edgeVars>>

\* The edge function call settles: a response of the expected shape gives the
\* clips, all pending, and the video details; anything else throws.
InvokeAnswer ==
    /\ app.submit = "invoking"
    /\ \E outcome \in {"valid", "error", "invalid", "rejected"} :
          app' = IF outcome = "valid"
                 THEN [app EXCEPT !.submit = "done", !.processing = FALSE,
                                  !.clips = [c \in ClipIds |-> "pending"],
                                  !.processedVideoDetails = TRUE]
                 ELSE SubmitFailed(app)
    /\ UNCHANGED <<clipVars, concVars, edgeVars>>

\* setClips(prev => prev.map(...)): the status of one clip of the current state.
SetClipStatus(a, clip, status) ==
    [c \in ClipIds |-> IF c = clip /\ a.clips[c] # "absent" THEN status ELSE a.clips[c]]
\* The Download Clip button of a render is clicked and handleDownloadClip runs
\* up to its fetch: the button is there, and the handler goes on, only when
\* the render's processingClipId is null.
DownloadClipStart ==
    \E i \in Invocations, clip \in ClipIds :
        /\ app.download[i].pc = "idle"
        /\ app.render.clips[clip] = "pending"
        /\ app.render.processingClipId = NoClip
        /\ app.render.processedVideoDetails
        /\ app.render.apiStatus = "ok"
        /\ app' = [app EXCEPT !.processingClipId = clip,
                              !.clips = SetClipStatus(app, clip, "clipping"),
                              !.download[i] = [pc |-> "fetching", clip |-> clip],
                              !.clipRequests = @ + 1]
        /\ UNCHANGED <<clipVars, concVars, edgeVars>>

\* The catch and finally blocks of handleDownloadClip.
ClipFailed(a, i) ==
    [a EXCEPT !.clips = SetClipStatus(a, a.download[i].clip, "failed_clip"),
              !.download[i].pc = "done",
              !.processingClipId = NoClip]
\* fetch rejects: the server cannot be reached.
ClipFetchRejected ==
    \E i \in Invocations :
        /\ app.download[i].pc = "fetching"
        /\ app' = ClipFailed(app, i)
        /\ UNCHANGED <<clipVars, concVars, edgeVars>>

\* fetch resolves: the clip is downloading; an error status has its body read.
ClipFetchAnswered ==
    \E i \in Invocations, ok \in BOOLEAN :
        /\ app.download[i].pc = "fetching"
        /\ app' = [app EXCEPT
                      !.clips = SetClipStatus(app, app.download[i].clip, "downloading"),
                      !.download[i].pc = IF ok THEN "blob" ELSE "error_body"]
        /\ UNCHANGED <<clipVars, concVars, edgeVars>>

\* The body of an error response has been read, or could not be: the handler throws.
ClipErrorBody ==
    \E i \in Invocations :
        /\ app.download[i].pc = "error_body"
        /\ app' = ClipFailed(app, i)
        /\ UNCHANGED <<clipVars, concVars, edgeVars>>

\* response.blob() settles: a blob that is not empty is saved, an empty one
\* or a rejection throws.
ClipBlob ==
    \E i \in Invocations, outcome \in {"blob", "empty", "rejected"} :
        /\ app.download[i].pc = "blob"
        /\ app' = IF outcome = "blob"
                  THEN [app EXCEPT
                           !.clips = SetClipStatus(app, app.download[i].clip, "completed"),
                           !.download[i].pc = "done",
                           !.processingClipId = NoClip]
                  ELSE ClipFailed(app, i)
        /\ UNCHANGED <<clipVars, concVars, edgeVars>>

NextApp ==
    \/ Render
    \/ Mount
    \/ HelloAnswer
    \/ DownloadOriginal
    \/ SubmitStart
    \/ UploadAnswer
    \/ InvokeAnswer
    \/ DownloadClipStart
    \/ ClipFetchRejected
    \/ ClipFetchAnswered
    \/ ClipErrorBody
    \/ ClipBlob

\* The frontend runs in the browser, apart from the server and the edge function.
InitApp == ClipInit /\ supabase /\ files = {} /\ ConcIdle /\ EdgeIdle /\ AppIdle
SpecApp == InitApp /\ [][NextApp]_vars
QuiescentApp == ~ENABLED NextApp


\* The same, every upload and every call of the edge function settling in the
\* end: the promise of a request resolves or rejects.
SpecAppFair == SpecApp /\ WF_vars(UploadAnswer) /\ WF_vars(InvokeAnswer)

\* C27: apiStatus is 'ok' only when GET /api/hello was answered with an OK
\* status and a JSON object whose message is exactly the one the local server
\* sends; handleSubmit uploads nothing and calls no edge function, and
\* handleDownloadOriginal opens no download, unless apiStatus is 'ok'; and
\* processing, once set by handleSubmit, is set back to false on every branch.
C27_SubmitRunning == app.submit \in {"uploading", "invoking"}
C27_HealthGate ==
    /\ [](app.apiStatus = "ok" =>
            /\ app.hello.kind = "answered"
            /\ app.hello.ok
            /\ app.hello.json = "object"
            /\ app.hello.message = "Hello from local API!"
            /\ app.hello.message = HelloMessage)
    /\ [][(\/ app'.uploads # app.uploads
           \/ app'.invokes # app.invokes
           \/ app'.opens # app.opens) => app.apiStatus = "ok" /\ app'.apiStatus = "ok"]_vars
    /\ []((app.uploads > 0 \/ app.invokes > 0 \/ app.opens > 0) => app.apiStatus = "ok")
    /\ [](app.processing => C27_SubmitRunning)
    /\ [](QuiescentApp => ~app.processing)
    /\ (app.processing ~> ~app.processing)
\* The server's message has been received, a file uploaded, the edge function
\* called, the analysis has failed and processing is over.
C27_Witness ==
    /\ app.apiStatus = "ok"
    /\ app.hello.message = HelloMessage
    /\ app.uploads = 1
    /\ app.invokes = 1
    /\ app.submit = "done"
    /\ ~app.processing
    /\ ~app.processedVideoDetails
\* A message that differs in case, and one without the final mark, have been
\* refused; a submit has been refused; a submit is in progress; the original
\* has been opened.
C27_NearMiss ==
    /\ app.hello.ok
    /\ app.hello.message \in {"Hello from local API", "hello from local api!"}
    /\ app.apiStatus = "error"
C27_Refused == app.submit = "refused" /\ app.original = "refused" /\ app.apiStatus = "error"
C27_Processing == app.processing /\ app.submit = "uploading"
C27_Opened == app.opens > 0
C27_EarlyReturn ==
    app.submit = "done" /\ app.uploads = 0 /\ app.invokes = 0 /\ app.apiStatus = "ok"


\* C26: at most one clip is being clipped or downloaded at any time, and at
\* most one handleDownloadClip invocation is in progress, also when two
\* invocations are started from the same render.
C26_InProgress == {i \in Invocations : app.download[i].pc \notin {"idle", "done"}}
C26_Active == {c \in ClipIds : app.clips[c] \in {"clipping", "downloading"}}
C26_AtMostOneClip ==
    /\ Cardinality(C26_Active) <= 1
    /\ Cardinality(C26_InProgress) <= 1
    /\ C26_InProgress # {} => app.processingClipId # NoClip
\* Two invocations started from one render: both clips are active, two
\* requests have been issued.
C26_TwoFromOneRender ==
    /\ app.render.processingClipId = NoClip
    /\ Cardinality(C26_Active) = 2
    /\ app.clipRequests = 2
\* The first of them to finish sets processingClipId to null while the other
\* is still in progress.
C26_ResetWhileBusy ==
    /\ app.processingClipId = NoClip
    /\ app.render.processingClipId = NoClip
    /\ app.render.clips = app.clips
    /\ C26_InProgress # {}
\* What holds of the claim. With a render between any two invocations, the
\* second is not started while the first is in progress:
C26_GuardAfterRender ==
    [][(app'.clipRequests # app.clipRequests /\ app.render = View(app)) =>
            C26_InProgress = {}]_vars
\* every invocation that finishes sets processingClipId to null;
C26_ResetOnFinish ==
    [][(\E i \in Invocations : app.download[i].pc # "done" /\ app'.download[i].pc = "done") =>
            app'.processingClipId = NoClip]_vars
\* and the status of a clip that no two invocations have been started on
\* moves only along pending, clipping, downloading and then completed or
\* failed_clip, a failure being possible from clipping too.
C26_StatusOrder ==
    [][\A c \in ClipIds :
          (/\ app'.clips[c] # app.clips[c]
           /\ Cardinality({i \in Invocations : app'.download[i].clip = c}) <= 1) =>
              <<app.clips[c], app'.clips[c]>> \in
                  {<<"absent", "pending">>, <<"absent", "absent">>,
                   <<"pending", "clipping">>, <<"clipping", "downloading">>,
                   <<"clipping", "failed_clip">>,
                   <<"downloading", "completed">>, <<"downloading", "failed_clip">>}]_vars


====
